---- MODULE Spec2Model ----
(***************************************************************************)
(* OceanEye collection-route visualizer: the planning / animation core as  *)
(* it is implemented on its four UI surfaces.                              *)
(*                                                                         *)
(*   "visual"    src/Visual/README.md (VisualizerPage, free-text input)    *)
(*   "page"      src/frontend/app/visualization/page.tsx (backend polling) *)
(*   "component" src/frontend/components/trash-collection-visualizer.tsx   *)
(*   "swarm"     src/unnamed/part_008 (SwarmPathVisualizer)                *)
(*                                                                         *)
(* Numbers.  JavaScript doubles are modelled in fixed point:               *)
(*   - source coordinates (x, y) are integers in units of 1/RawDen of a    *)
(*     source unit, so that the mean of up to six whole-unit coordinates   *)
(*     is exact;                                                           *)
(*   - canvas coordinates (normX, normY), container sizes and every        *)
(*     length on the canvas are integers in units of 1/10 pixel;           *)
(*   - Math.hypot is the integer square root (rounded down);               *)
(*   - times are integers in milliseconds.                                 *)
(* State that only selects what is rendered (loading, fullScreen) is left  *)
(* out.                                                                    *)
(* Sequences are 1-based: index k of the code is index k+1 here, and the   *)
(* code's "-1: not found" is 0.                                            *)
(***************************************************************************)
EXTENDS Integers, Sequences, FiniteSets, TLC

VARIABLES
    surface,         \* which of the four implementations is running
    inputValue,      \* visual: the text of the input box (a JSON document)
    counts,          \* page: detectionCounts; component: the counts prop
    trashPoints,     \* useState<TrashPoint[]>
    error,           \* visual: useState<string | null>
    isPlaying,       \* useState(false)
    elapsed,         \* useState(0), milliseconds
    last,            \* the animation effect's `last`: "none" while no effect runs,
                     \* "effect" when read from performance.now(), "frame" when
                     \* it is the timestamp of the previous frame
    containerSize,   \* useState({width, height})
    plan,            \* useMemo<Plan | null> over (trashPoints, containerSize)
    pc,              \* position: "ui" on a surface, else the stage of a function call
    args,            \* the arguments of the function call under study
    result           \* what the function call has returned so far

vars == <<surface, inputValue, counts, trashPoints, error, isPlaying, elapsed, last,
          containerSize, plan, pc, args, result>>

uiVars == <<surface, inputValue, counts, trashPoints, error, isPlaying, elapsed, last,
            containerSize, plan>>

-----------------------------------------------------------------------------
(* Arithmetic                                                              *)

\* denominator of source coordinates: 60 = lcm(1..6)
RawDen == 3 * 4 * 5

Min(a, b) == IF a <= b THEN a ELSE b
Max(a, b) == IF a >= b THEN a ELSE b
Abs(a) == IF a < 0 THEN -a ELSE a

RECURSIVE SqrtSearch(_, _, _)
SqrtSearch(n, lo, hi) ==
    IF lo >= hi THEN lo
    ELSE \* mid is bound as a value, so each halving computes it once
         CHOOSE root \in {IF mid * mid <= n THEN SqrtSearch(n, mid, hi)
                                              ELSE SqrtSearch(n, lo, mid - 1) :
                           mid \in {(lo + hi + 1) \div 2}} : TRUE

\* Math.hypot(dx, dy), rounded down to the length unit
Hypot(dx, dy) == SqrtSearch(dx * dx + dy * dy, 0, 46340)

RECURSIVE SumSeq(_)
SumSeq(s) == IF s = <<>> THEN 0 ELSE Head(s) + SumSeq(Tail(s))

\* <<0, s[1], s[1] + s[2], ...>>: a running total pushed after every addition.
\* Computed by halves (offset is the total before index lo).
RECURSIVE TotalsFrom(_, _, _, _)
TotalsFrom(s, lo, hi, offset) ==
    IF lo > hi THEN <<>>
    ELSE IF lo = hi THEN <<offset + s[lo]>>
    ELSE LET mid == (lo + hi) \div 2
             left == TotalsFrom(s, lo, mid, offset)
         IN  left \o TotalsFrom(s, mid + 1, hi, left[Len(left)])

RunningTotals(s) == <<0>> \o TotalsFrom(s, 1, Len(s), 0)

Range(s) == {s[k] : k \in 1..Len(s)}

\* all sequences over S of length 0..n
SeqsUpTo(S, n) == UNION {[1..k -> S] : k \in 0..n}

\* s.filter(Keep): the elements of s whose index is in keep, in order
RECURSIVE FilterIndices(_, _, _)
FilterIndices(s, keep, k) ==
    IF k > Len(s) THEN <<>>
    ELSE (IF k \in keep THEN <<s[k]>> ELSE <<>>) \o FilterIndices(s, keep, k + 1)

\* s.find(...): the first index of s in the set hits, 0 when there is none
FirstIndex(s, hits) ==
    IF hits = {} THEN 0 ELSE CHOOSE k \in hits : \A m \in hits : k <= m

-----------------------------------------------------------------------------
(* Category table and strings                                              *)

\* TrashLabel / the keys of TYPE_ICONS, in the order of TYPE_NAMES
TrashLabels ==
    <<"rov", "plant", "animal_fish", "animal_starfish",
      "animal_shells", "animal_crab", "animal_eel", "animal_etc",
      "trash_etc", "trash_fabric", "trash_fishing_gear", "trash_metal",
      "trash_paper", "trash_plastic", "trash_rubber", "trash_wood">>

TYPE_ICONS == Range(TrashLabels)

\* TYPE_NAMES: numeric code (written in decimal) -> label; other codes are undefined
TYPE_NAMES ==
    "0" :> "rov" @@
    "1" :> "plant" @@
    "2" :> "animal_fish" @@
    "3" :> "animal_starfish" @@
    "4" :> "animal_shells" @@
    "5" :> "animal_crab" @@
    "6" :> "animal_eel" @@
    "7" :> "animal_etc" @@
    "8" :> "trash_etc" @@
    "9" :> "trash_fabric" @@
    "10" :> "trash_fishing_gear" @@
    "11" :> "trash_metal" @@
    "12" :> "trash_paper" @@
    "13" :> "trash_plastic" @@
    "14" :> "trash_rubber" @@
    "15" :> "trash_wood"

\* the UTF-16 code units of the labels
LabelChars ==
    "rov" :> <<114, 111, 118>> @@
    "plant" :> <<112, 108, 97, 110, 116>> @@
    "animal_fish" :> <<97, 110, 105, 109, 97, 108, 95, 102, 105, 115, 104>> @@
    "animal_starfish" :> <<97, 110, 105, 109, 97, 108, 95, 115, 116, 97, 114, 102, 105, 115, 104>> @@
    "animal_shells" :> <<97, 110, 105, 109, 97, 108, 95, 115, 104, 101, 108, 108, 115>> @@
    "animal_crab" :> <<97, 110, 105, 109, 97, 108, 95, 99, 114, 97, 98>> @@
    "animal_eel" :> <<97, 110, 105, 109, 97, 108, 95, 101, 101, 108>> @@
    "animal_etc" :> <<97, 110, 105, 109, 97, 108, 95, 101, 116, 99>> @@
    "trash_etc" :> <<116, 114, 97, 115, 104, 95, 101, 116, 99>> @@
    "trash_fabric" :> <<116, 114, 97, 115, 104, 95, 102, 97, 98, 114, 105, 99>> @@
    "trash_fishing_gear" :> <<116, 114, 97, 115, 104, 95, 102, 105, 115, 104, 105, 110, 103, 95, 103, 101, 97, 114>> @@
    "trash_metal" :> <<116, 114, 97, 115, 104, 95, 109, 101, 116, 97, 108>> @@
    "trash_paper" :> <<116, 114, 97, 115, 104, 95, 112, 97, 112, 101, 114>> @@
    "trash_plastic" :> <<116, 114, 97, 115, 104, 95, 112, 108, 97, 115, 116, 105, 99>> @@
    "trash_rubber" :> <<116, 114, 97, 115, 104, 95, 114, 117, 98, 98, 101, 114>> @@
    "trash_wood" :> <<116, 114, 97, 115, 104, 95, 119, 111, 111, 100>>

\* the UTF-16 code units of the other strings that occur as keys or types of an
\* input, and of the words normalizeTypeName looks for
OtherChars ==
    "plastic" :> <<112, 108, 97, 115, 116, 105, 99>> @@
    "Metal Can" :> <<77, 101, 116, 97, 108, 32, 67, 97, 110>> @@
    "glass" :> <<103, 108, 97, 115, 115>> @@
    "robot" :> <<114, 111, 98, 111, 116>> @@
    "_total" :> <<95, 116, 111, 116, 97, 108>> @@
    "13" :> <<49, 51>> @@
    "0" :> <<48>> @@
    "99" :> <<57, 57>> @@
    "metal" :> <<109, 101, 116, 97, 108>> @@
    "paper" :> <<112, 97, 112, 101, 114>> @@
    "fabric" :> <<102, 97, 98, 114, 105, 99>> @@
    "cloth" :> <<99, 108, 111, 116, 104>> @@
    "wood" :> <<119, 111, 111, 100>> @@
    "rubber" :> <<114, 117, 98, 98, 101, 114>> @@
    "fishing" :> <<102, 105, 115, 104, 105, 110, 103>> @@
    "net" :> <<110, 101, 116>> @@
    "gear" :> <<103, 101, 97, 114>> @@
    "fish" :> <<102, 105, 115, 104>> @@
    "crab" :> <<99, 114, 97, 98>> @@
    "eel" :> <<101, 101, 108>> @@
    "starfish" :> <<115, 116, 97, 114, 102, 105, 115, 104>> @@
    "shell" :> <<115, 104, 101, 108, 108>> @@
    "seaweed" :> <<115, 101, 97, 119, 101, 101, 100>> @@
    "algae" :> <<97, 108, 103, 97, 101>>

Chars(str) == IF str \in DOMAIN LabelChars THEN LabelChars[str] ELSE OtherChars[str]

\* the label spelled by the code units cs, or "" when they spell none (x in TYPE_ICONS)
LabelOf(cs) ==
    IF \E l \in TYPE_ICONS : LabelChars[l] = cs
    THEN CHOOSE l \in TYPE_ICONS : LabelChars[l] = cs
    ELSE ""

\* String(n) for an integer n >= 0
RECURSIVE DecimalChars(_)
DecimalChars(n) ==
    IF n < 10 THEN <<48 + n>> ELSE Append(DecimalChars(n \div 10), 48 + (n % 10))

\* a < b in code-unit order; for lower-case labels, digits and ':' this is also
\* the order of localeCompare
RECURSIVE CharsLess(_, _)
CharsLess(a, b) ==
    IF b = <<>> THEN FALSE
    ELSE IF a = <<>> THEN TRUE
    ELSE IF Head(a) # Head(b) THEN Head(a) < Head(b)
    ELSE CharsLess(Tail(a), Tail(b))

\* Array.prototype.sort (stable) of a list of records by their sortKey field
RECURSIVE InsertSorted(_, _)
InsertSorted(sorted, e) ==
    IF sorted = <<>> THEN <<e>>
    ELSE IF CharsLess(e.sortKey, sorted[Len(sorted)].sortKey)
         THEN Append(InsertSorted(SubSeq(sorted, 1, Len(sorted) - 1), e),
                     sorted[Len(sorted)])
         ELSE Append(sorted, e)

RECURSIVE SortByKey(_)
SortByKey(s) ==
    IF s = <<>> THEN <<>>
    ELSE InsertSorted(SortByKey(SubSeq(s, 1, Len(s) - 1)), s[Len(s)])

RECURSIVE Concat(_)
Concat(ss) == IF ss = <<>> THEN <<>> ELSE Head(ss) \o Concat(Tail(ss))

\* JSON.stringify of a list whose elements are already rendered: [e1,e2,...]
JsonArray(rendered) ==
    <<91>> \o Concat([k \in 1..Len(rendered) |->
                         (IF k = 1 THEN <<>> ELSE <<44>>) \o rendered[k]])
           \o <<93>>

\* JSON.stringify of a string of plain characters: "..."
JsonString(cs) == <<34>> \o cs \o <<34>>

-----------------------------------------------------------------------------
(* Deterministic RNG: 32-bit words are kept as two 16-bit halves           *)

Half == 2 ^ 16

Word(hi, lo) == [hi |-> hi, lo |-> lo]

RECURSIVE BitOp(_, _, _, _)
\* bitwise combination of two values of the given number of bits, by halves;
\* op is "xor" or "or"
BitOp(op, a, b, bits) ==
    IF bits = 1 THEN (IF op = "xor" THEN (a + b) % 2 ELSE Max(a, b))
    ELSE LET h == bits \div 2
             p == 2 ^ h
         IN  BitOp(op, a % p, b % p, h) + (p * BitOp(op, a \div p, b \div p, bits - h))

WordXor(a, b) == Word(BitOp("xor", a.hi, b.hi, 16), BitOp("xor", a.lo, b.lo, 16))

WordOr(a, b) == Word(BitOp("or", a.hi, b.hi, 16), BitOp("or", a.lo, b.lo, 16))

\* a + b modulo 2^32
WordAdd(a, b) ==
    LET lo == a.lo + b.lo
    IN  Word((a.hi + b.hi + (lo \div Half)) % Half, lo % Half)

\* a >>> k for 0 < k < 16
WordShr(a, k) ==
    LET p == 2 ^ k
    IN  Word(a.hi \div p, ((a.hi % p) * (Half \div p)) + (a.lo \div p))

\* (a * b) modulo 2^16 for 16-bit a and b
MulMod16(a, b) == (((a % 256) * b) + ((((a \div 256) * b) % 256) * 256)) % Half

\* Math.imul(a, b): the low 32 bits of the product
imul(a, b) ==
    LET lowProduct == ((a.lo % 256) * b.lo)
        highPart   == (a.lo \div 256) * b.lo
        low        == lowProduct + ((highPart % 256) * 256)
        carry      == (low \div Half) + (highPart \div 256)
    IN  Word((MulMod16(a.hi, b.lo) + MulMod16(a.lo, b.hi) + carry) % Half, low % Half)

FnvOffset == Word(33052, 40389)

FnvPrime == Word(256, 403)

\* the loop of hashString from index i on. The accumulator is inspected at
\* every step (it is never negative), which keeps the evaluation iterative.
RECURSIVE HashLoop(_, _, _)
HashLoop(str, i, hash) ==
    IF i > Len(str) \/ hash.hi < 0 THEN hash
    ELSE HashLoop(str, i + 1, imul(WordXor(hash, Word(0, str[i])), FnvPrime))

\* hashString(str) for a string given by its code units
hashString(str) == HashLoop(str, 1, FnvOffset)

MulberryStep == Word(27947, 31221)

\* t += 0x6D2B79F5, n times
RECURSIVE MulberryAdvance(_, _)
MulberryAdvance(w, n) ==
    IF n = 0 THEN w ELSE MulberryAdvance(WordAdd(w, MulberryStep), n - 1)

\* t = Math.imul(t ^ (t >>> 15), t | 1)
MulberryMix(t) == imul(WordXor(t, WordShr(t, 15)), WordOr(t, Word(0, 1)))

\* t ^= t + Math.imul(t ^ (t >>> 7), t | 61)
MulberryFold(t) ==
    WordXor(t, WordAdd(t, imul(WordXor(t, WordShr(t, 7)), WordOr(t, Word(0, 61)))))

\* (t ^ (t >>> 14)) >>> 0
MulberryOut(t) == WordXor(t, WordShr(t, 14))

\* the k-th value (k = 1, 2, ...) of the generator mulberry32(seed), as a 32-bit word
mulberry32(seed, k) == MulberryOut(MulberryFold(MulberryMix(MulberryAdvance(seed, k))))

\* min + rng() * (max - min) for min 10 and max 90 and rng() = w / 2^32, in
\* source units, rounded down
ScaleToRange(w) ==
    (10 * RawDen) + (((w.hi * (80 * RawDen)) + ((w.lo * (80 * RawDen)) \div Half)) \div Half)

\* randomInRange(rng, 10, 90) for the k-th value of the generator seeded by the
\* string seedSource
randomInRange(seedSource, k) == ScaleToRange(mulberry32(hashString(seedSource), k))

-----------------------------------------------------------------------------
(* Route planner: page.tsx, trash-collection-visualizer.tsx, README.md     *)

\* distance(a, b): the Vec2 fields x, y of its arguments
distance(a, b) == Hypot(a.x - b.x, a.y - b.y)

\* the for loop of findNearestTarget from index i on; bestDistance -1 is +Infinity
RECURSIVE NearestScan(_, _, _, _, _, _)
NearestScan(origin, targets, visited, i, bestIndex, bestDistance) ==
    IF i > Len(targets) THEN bestIndex
    ELSE IF i \in visited
         THEN NearestScan(origin, targets, visited, i + 1, bestIndex, bestDistance)
         ELSE LET dist == distance(origin, targets[i])
              IN  IF bestDistance = -1 \/ dist < bestDistance
                  THEN NearestScan(origin, targets, visited, i + 1, i, dist)
                  ELSE NearestScan(origin, targets, visited, i + 1, bestIndex, bestDistance)

\* among the nearest unvisited targets, the one that comes last in the array
findNearestTargetLastOnTie(origin, targets, visited) ==
    LET open == (1..Len(targets)) \ visited
    IN  IF open = {} THEN 0
        ELSE CHOOSE i \in open :
                 \A m \in open :
                     \/ distance(origin, targets[i]) < distance(origin, targets[m])
                     \/ (distance(origin, targets[i]) = distance(origin, targets[m]) /\ i >= m)

findNearestTarget(origin, targets, visited) ==
    NearestScan(origin, targets, visited, 1, 0, -1)

\* the while loop of orderTargets that builds the nearest-neighbour route
RECURSIVE ConstructLoop(_, _, _, _)
ConstructLoop(targets, currentIndex, route, visited) ==
    IF currentIndex = 0 THEN route
    ELSE LET visited2 == visited \cup {currentIndex}
         IN  ConstructLoop(targets,
                           findNearestTarget(targets[currentIndex], targets, visited2),
                           Append(route, currentIndex), visited2)

NearestNeighbourRoute(targets, base) ==
    ConstructLoop(targets, findNearestTarget(base, targets, {}), <<>>, {})

\* route[start] = route[end] written back without the temporary
reverseRouteSegmentNoTemp(route, start, end) ==
    [k \in 1..Len(route) |->
        IF start <= k /\ k <= end /\ 2 * k < start + end
        THEN route[start + end - k] ELSE route[k]]

reverseRouteSegment(route, start, end) ==
    [k \in 1..Len(route) |->
        IF start <= k /\ k <= end THEN route[start + end - k] ELSE route[k]]

\* the comparison of the 2-opt test turned round
TwoOptGainReversed(targets, route, i, j) ==
    LET a == targets[route[i - 1]]
        b == targets[route[i]]
        c == targets[route[j]]
        d == targets[route[j + 1]]
        currentDistance == distance(a, b) + distance(c, d)
        swappedDistance == distance(a, c) + distance(b, d)
    IN  swappedDistance > currentDistance

\* the test without its tolerance and not strict: equal lengths count as a gain
TwoOptGainOrEqual(targets, route, i, j) ==
    LET a == targets[route[i - 1]]
        b == targets[route[i]]
        c == targets[route[j]]
        d == targets[route[j + 1]]
        currentDistance == distance(a, b) + distance(c, d)
        swappedDistance == distance(a, c) + distance(b, d)
    IN  swappedDistance <= currentDistance

\* the test of the 2-opt loop body: swappedDistance + 1e-6 < currentDistance.
\* Lengths are whole tenths of a pixel, and 1e-6 is less than one of them.
TwoOptGain(targets, route, i, j) ==
    LET a == targets[route[i - 1]]
        b == targets[route[i]]
        c == targets[route[j]]
        d == targets[route[j + 1]]
        currentDistance == distance(a, b) + distance(c, d)
        swappedDistance == distance(a, c) + distance(b, d)
    IN  swappedDistance < currentDistance

\* the index pairs the two for loops visit from (i, j) on, for a route of n
\* stops; positions count from 1 here, so the code's (i, j) is (i + 1, j + 1)
RECURSIVE TwoOptPairs(_, _, _)
TwoOptPairs(n, i, j) ==
    IF i > n - 2 THEN {}
    ELSE IF j > n - 1 THEN TwoOptPairs(n, i + 1, i + 2)
    ELSE {<<i, j>>} \cup TwoOptPairs(n, i, j + 1)

\* a pass that tests the pairs and reverses nothing
TwoOptPassNoSwap(targets, route, i, j, improved) == <<route, FALSE>>

\* one pass of the two for loops, from (i, j) on; code: i in 1..n-3, j in i+1..n-2
RECURSIVE TwoOptPass(_, _, _, _, _)
TwoOptPass(targets, route, i, j, improved) ==
    IF i > Len(route) - 2 THEN <<route, improved>>
    ELSE IF j > Len(route) - 1 THEN TwoOptPass(targets, route, i + 1, i + 2, improved)
    ELSE IF TwoOptGain(targets, route, i, j)
         THEN TwoOptPass(targets, reverseRouteSegment(route, i, j), i, j + 1, TRUE)
         ELSE TwoOptPass(targets, route, i, j + 1, improved)

\* while (improved) { one pass }
RECURSIVE TwoOptLoop(_, _)
TwoOptLoop(targets, route) ==
    LET pass == TwoOptPass(targets, route, 2, 3, FALSE)
    IN  IF pass[2] THEN TwoOptLoop(targets, pass[1]) ELSE pass[1]

\* a refinement that also turns the whole route round
TwoOptRefineTurned(targets, route) ==
    IF Len(route) >= 4
    THEN reverseRouteSegment(TwoOptLoop(targets, route), 1, Len(route))
    ELSE route

TwoOptRefine(targets, route) ==
    IF Len(route) >= 4 THEN TwoOptLoop(targets, route) ELSE route

\* orderTargets returns route.map(index => targets[index]); RouteIndices is the route
RouteIndices(targets, base) ==
    IF targets = <<>> THEN <<>>
    ELSE TwoOptRefine(targets, NearestNeighbourRoute(targets, base))

\* route.map((index) => targets[index])
TargetsAlong(targets, route) == [k \in 1..Len(route) |-> targets[route[k]]]

orderTargets(targets, base) == TargetsAlong(targets, RouteIndices(targets, base))

-----------------------------------------------------------------------------
(* Path smoother: page.tsx, trash-collection-visualizer.tsx, README.md     *)

samplesPerSegment == 24

\* one axis of catmullRom at t = j / samplesPerSegment, rounded to the nearest unit:
\* 0.5 * (2 p1 + (-p0 + p2) t + (2 p0 - 5 p1 + 4 p2 - p3) t^2 + (-p0 + 3 p1 - 3 p2 + p3) t^3)
CatmullRomAxis(p0, p1, p2, p3, j) ==
    LET S == samplesPerSegment
        S3 == S * S * S
        num == 2 * p1 * S3
               + (p2 - p0) * j * S * S
               + (2 * p0 - 5 * p1 + 4 * p2 - p3) * j * j * S
               + (3 * p1 - p0 - 3 * p2 + p3) * j * j * j
    IN  (num + S3) \div (2 * S3)

catmullRom(p0, p1, p2, p3, j) ==
    [x |-> CatmullRomAxis(p0.x, p1.x, p2.x, p3.x, j),
     y |-> CatmullRomAxis(p0.y, p1.y, p2.y, p3.y, j)]

\* sample j (1..samplesPerSegment) of segment i (1-based): the body of the inner loop
SamplePoint(waypoints, i, j) ==
    LET p0 == waypoints[IF i = 1 THEN 1 ELSE i - 1]
        p1 == waypoints[i]
        p2 == waypoints[i + 1]
        p3 == IF i + 2 <= Len(waypoints) THEN waypoints[i + 2]
                                         ELSE waypoints[Len(waypoints)]
    IN  catmullRom(p0, p1, p2, p3, j)

\* points after both loops: waypoints[0], then the samples segment by segment
SmoothPoints(waypoints) ==
    [k \in 1..(1 + (Len(waypoints) - 1) * samplesPerSegment) |->
        IF k = 1 THEN waypoints[1]
        ELSE SamplePoint(waypoints,
                         1 + ((k - 2) \div samplesPerSegment),
                         1 + ((k - 2) % samplesPerSegment))]

\* segmentLength of every pushed sample: Math.hypot(point - prev)
StepLengths(points) ==
    [k \in 1..(Len(points) - 1) |->
        Hypot(points[k + 1].x - points[k].x, points[k + 1].y - points[k].y)]

\* the SmoothPath over the sampled points and their running length
SmoothPathOf(count, points, cumulative) ==
    [points |-> points,
     cumulative |-> cumulative,
     totalLength |-> cumulative[Len(cumulative)],
     segmentDistances |->
         [i \in 1..(count - 1) |-> cumulative[1 + i * samplesPerSegment]]]

SmoothPathOver(count, points) ==
    SmoothPathOf(count, points, RunningTotals(StepLengths(points)))

buildSmoothPath(waypoints) ==
    IF Len(waypoints) <= 1
    THEN [points |-> <<IF Len(waypoints) = 1 THEN waypoints[1] ELSE [x |-> 0, y |-> 0]>>,
          cumulative |-> <<0>>, totalLength |-> 0, segmentDistances |-> <<>>]
    ELSE SmoothPathOver(Len(waypoints), SmoothPoints(waypoints))

-----------------------------------------------------------------------------
(* Path builder of the swarm surface: part_008                             *)

\* a source coordinate read as a canvas number (Vec2 x, y of a NormalizedTrashPoint)
RawAsCanvas(v) == (v * 10) \div RawDen

\* a NormalizedTrashPoint passed where a Vec2 is expected: its fields x, y
AsVec2(p) == [x |-> RawAsCanvas(p.x), y |-> RawAsCanvas(p.y)]

\* distance(a, b) between two sampled points (Vec2 in canvas units)
sampleDistance(a, b) == Hypot(a.x - b.x, a.y - b.y)

\* the running total of distance(points[i - 1], points[i]), starting with 0
PathCumulative(points) ==
    RunningTotals([k \in 1..(Len(points) - 1) |-> sampleDistance(points[k], points[k + 1])])

LastOf(c) == c[Len(c)]

calculatePathLength(points) ==
    IF Len(points) <= 1 THEN 0 ELSE LastOf(PathCumulative(points))

\* the inner for loop: steps samples on the straight line from start to end
SwarmSegment(start, end, steps) ==
    [j \in 1..steps |->
        [x |-> start.normX + ((end.normX - start.normX) * j) \div steps,
         y |-> start.normY + ((end.normY - start.normY) * j) \div steps]]

\* segmentLength = distance(start, end) on the fields x, y, in whole source
\* units, and steps = Math.max(2, Math.floor(segmentLength / 10))
SwarmSteps(start, end) == Max(2, (distance(start, end) \div RawDen) \div 10)

\* segmentDistances.push(smoothPoints.length > 1 ? calculatePathLength(smoothPoints) : 0)
PushedDistance(smoothPoints) ==
    IF Len(smoothPoints) > 1 THEN calculatePathLength(smoothPoints) ELSE 0

\* the outer for loop from segment i on
RECURSIVE SwarmSmoothLoop(_, _, _, _)
RECURSIVE SwarmSmoothNext(_, _, _, _)
SwarmSmoothLoop(waypoints, i, smoothPoints, segmentDistances) ==
    IF i > Len(waypoints) - 1 THEN <<smoothPoints, segmentDistances>>
    ELSE SwarmSmoothNext(waypoints, i,
                         smoothPoints \o SwarmSegment(waypoints[i], waypoints[i + 1],
                                                      SwarmSteps(waypoints[i], waypoints[i + 1])),
                         segmentDistances)

\* the end of one pass of the outer loop, the samples of segment i pushed
SwarmSmoothNext(waypoints, i, smoothPoints, segmentDistances) ==
    SwarmSmoothLoop(waypoints, i + 1, smoothPoints,
                    Append(segmentDistances, PushedDistance(smoothPoints)))

SwarmPathOf(smoothPoints, cumulative, segmentDistances) ==
    [points |-> smoothPoints,
     cumulative |-> cumulative,
     totalLength |-> cumulative[Len(cumulative)],
     segmentDistances |-> segmentDistances]

SwarmPathOver(loop) == SwarmPathOf(loop[1], PathCumulative(loop[1]), loop[2])

buildSmoothPathSwarm(waypoints) ==
    IF Len(waypoints) < 2
    THEN [points |-> [k \in 1..Len(waypoints) |-> AsVec2(waypoints[k])],
          cumulative |-> <<0>>, totalLength |-> 0, segmentDistances |-> <<>>]
    ELSE SwarmPathOver(SwarmSmoothLoop(waypoints, 1, <<AsVec2(waypoints[1])>>, <<>>))

-----------------------------------------------------------------------------
(* Route construction of the swarm surface: part_008                       *)

\* the for loop of greedySort from index i on (remaining[0] is the first candidate)
RECURSIVE GreedyScan(_, _, _, _, _)
GreedyScan(current, remaining, i, bestIndex, bestDistance) ==
    IF i > Len(remaining) THEN bestIndex
    ELSE LET d == distance(current, remaining[i])
         IN  IF d < bestDistance
             THEN GreedyScan(current, remaining, i + 1, i, d)
             ELSE GreedyScan(current, remaining, i + 1, bestIndex, bestDistance)

\* remaining.splice(bestIndex, 1): the list without that element
Splice(s, k) == [m \in 1..(Len(s) - 1) |-> IF m < k THEN s[m] ELSE s[m + 1]]

RECURSIVE GreedyLoop(_, _, _)
GreedyLoop(current, remaining, res) ==
    IF Len(remaining) = 0 THEN res
    ELSE LET bestIndex == GreedyScan(current, remaining, 2, 1,
                                     distance(current, remaining[1]))
             next == remaining[bestIndex]
         IN  GreedyLoop(next, Splice(remaining, bestIndex), Append(res, next))

greedySort(base, targets) == GreedyLoop(base, targets, <<>>)

-----------------------------------------------------------------------------
(* Point generator                                                         *)
(*                                                                         *)
(* A JSON document is [kind, items, entries]: kind is "invalid" (not JSON), *)
(* "scalar" (null, number, string, boolean), "array" (items) or "dict"     *)
(* (entries, in the order of Object.entries).  An array item is            *)
(* [id, hasXY, x, y, typeKind, type]: id "" is an absent id, typeKind is   *)
(* "string", "number" (type is then the code in decimal) or "undefined".   *)
(* A dictionary entry is [key, count]; a count is [kind, v] with kind      *)
(* "number", "infinite" or "string".                                       *)

NoError == [message |-> "", index |-> 0, type |-> ""]

Failure(message, index, type) ==
    [ok |-> FALSE, points |-> <<>>,
     error |-> [message |-> message, index |-> index, type |-> type]]

Success(points) == [ok |-> TRUE, points |-> points, error |-> NoError]

TrashPoint(id, type, x, y) ==
    [id |-> id, type |-> type, x |-> x, y |-> y, normX |-> 0, normY |-> 0]

\* resolveType of README.md: "" is undefined
resolveType(typeKind, type) ==
    IF typeKind = "number"
    THEN (IF type \in DOMAIN TYPE_NAMES THEN TYPE_NAMES[type] ELSE "")
    ELSE IF typeKind = "string" /\ type \in TYPE_ICONS THEN type
    ELSE ""

RECURSIVE ParseArrayLoop(_, _, _)
ParseArrayLoop(arrayInput, i, res) ==
    IF i > Len(arrayInput) THEN Success(res)
    ELSE LET item == arrayInput[i]
             type == resolveType(item.typeKind, item.type)
         IN  IF ~item.hasXY
             THEN Failure("Detection is missing numeric x/y coordinates.", i - 1, "")
             ELSE IF item.typeKind = "undefined"
             THEN Failure("Detection is missing a type.", i - 1, "")
             ELSE IF type = ""
             THEN Failure("Detection has an unknown type", i - 1, item.type)
             ELSE ParseArrayLoop(arrayInput, i + 1,
                      Append(res, TrashPoint(IF item.id = "" THEN "point-" \o ToString(i - 1)
                                                             ELSE item.id,
                                             type, item.x * RawDen, item.y * RawDen)))

\* parseArrayInput of README.md
parseArrayInput(arrayInput) == ParseArrayLoop(arrayInput, 1, <<>>)

\* typeof count === "number" && Number.isFinite(count) && count > 0
ValidCount(count) == count.kind = "number" /\ count.v > 0

\* !isNaN(Number(rawType)) for the keys used here: a non-empty run of digits
AllDigits(cs) == cs # <<>> /\ \A k \in 1..Len(cs) : cs[k] \in 48..57

IsNumericKey(rawType) == AllDigits(Chars(rawType))

\* the points of one entry, the first of them having the given globalIndex
SeededPoint(id, type, pointSeed) ==
    TrashPoint(id, type, randomInRange(pointSeed, 1), randomInRange(pointSeed, 2))

EntryPoints(type, count, seedSource, globalIndex) ==
    [i \in 1..count |->
        SeededPoint(type \o "-" \o ToString(i), type,
                    seedSource \o <<58>> \o DecimalChars(globalIndex + i - 1))]

RECURSIVE ForEachEntry(_, _, _, _)
ForEachEntry(entries, k, seedSource, points) ==
    IF k > Len(entries) THEN points
    ELSE ForEachEntry(entries, k + 1, seedSource,
                      points \o EntryPoints(entries[k].type, entries[k].count,
                                            seedSource, Len(points)))

\* the part shared by README.md and page.tsx: seed from the sorted "type:count"
\* strings, then the points of the entries sorted by type
SeedOfSorted(sortedEntries) ==
    JsonArray([k \in 1..Len(sortedEntries) |-> JsonString(sortedEntries[k].sortKey)])

GenerateFromEntries(normalizedEntries) ==
    ForEachEntry(SortByKey([k \in 1..Len(normalizedEntries) |->
                               [type    |-> normalizedEntries[k].type,
                                count   |-> normalizedEntries[k].count,
                                sortKey |-> Chars(normalizedEntries[k].type)]]),
                 1,
                 SeedOfSorted(SortByKey(
                     [k \in 1..Len(normalizedEntries) |->
                         [sortKey |-> Chars(normalizedEntries[k].type) \o <<58>>
                                        \o DecimalChars(normalizedEntries[k].count)]])),
                 <<>>)

\* the type of an entry of README.md's dictionary, "" when it cannot be resolved
VisualEntryType(rawType) ==
    IF IsNumericKey(rawType) THEN resolveType("number", rawType)
    ELSE resolveType("string", rawType)

\* the failure of the first entry that parseCountsDictionary of README.md rejects
EntryFailure(entry) ==
    IF ~ValidCount(entry.count)
    THEN Failure("Invalid count for type. Counts must be positive numbers.", 0, entry.key)
    ELSE Failure("Unknown trash type", 0, entry.key)

\* parseCountsDictionary of README.md once the types of the entries are resolved
ParseResolvedEntries(entries, types, firstBad) ==
    IF entries = <<>>
    THEN Failure("Counts dictionary is empty. Provide at least one item.", 0, "")
    ELSE IF firstBad # 0 THEN EntryFailure(entries[firstBad])
    ELSE Success(GenerateFromEntries(
             [k \in 1..Len(entries) |-> [type |-> types[k], count |-> entries[k].count.v]]))

ParseTypedEntries(entries, types) ==
    ParseResolvedEntries(entries, types,
                         FirstIndex(entries,
                                    {k \in 1..Len(entries) :
                                        ~ValidCount(entries[k].count) \/ types[k] = ""}))

\* parseCountsDictionary of README.md
parseCountsDictionaryVisual(entries) ==
    ParseTypedEntries(entries, [k \in 1..Len(entries) |-> VisualEntryType(entries[k].key)])

\* parseInput of README.md
parseInput(input) ==
    IF input.kind = "invalid"
    THEN Failure("Invalid JSON format. Ensure the input is valid JSON.", 0, "")
    ELSE IF input.kind = "array" THEN parseArrayInput(input.items)
    ELSE IF input.kind = "dict" THEN parseCountsDictionaryVisual(input.entries)
    ELSE Failure("Input must be either an array of detections or an object mapping types to counts.",
                 0, "")

\* rawType.toLowerCase()
ToLowerCase(cs) == [k \in 1..Len(cs) |-> IF cs[k] \in 65..90 THEN cs[k] + 32 ELSE cs[k]]

\* the characters matched by [_\s-] that occur in the keys used here
IsSeparator(c) == c \in {95, 32, 45, 9, 10}

\* replace(/[_\s-]+/g, "_")
ReplaceSeparators(cs) ==
    LET kept == {k \in 1..Len(cs) :
                    ~(IsSeparator(cs[k]) /\ k > 1 /\ IsSeparator(cs[k - 1]))}
        shorter == FilterIndices(cs, kept, 1)
    IN  [k \in 1..Len(shorter) |-> IF IsSeparator(shorter[k]) THEN 95 ELSE shorter[k]]

\* normalized.includes(word), the word given by its code units
IncludesChars(cs, sub) ==
    \E k \in 0..(Len(cs) - Len(sub)) : SubSeq(cs, k + 1, k + Len(sub)) = sub

Includes(cs, word) == IncludesChars(cs, Chars(word))

\* the chain "if (normalized.includes(...) || ...) return label" of
\* normalizeTypeName, in its order
KeywordRules ==
    << [words |-> {"plastic"},                 label |-> "trash_plastic"],
       [words |-> {"metal"},                   label |-> "trash_metal"],
       [words |-> {"paper"},                   label |-> "trash_paper"],
       [words |-> {"fabric", "cloth"},         label |-> "trash_fabric"],
       [words |-> {"wood"},                    label |-> "trash_wood"],
       [words |-> {"rubber"},                  label |-> "trash_rubber"],
       [words |-> {"fishing", "net", "gear"},  label |-> "trash_fishing_gear"],
       [words |-> {"fish"},                    label |-> "animal_fish"],
       [words |-> {"crab"},                    label |-> "animal_crab"],
       [words |-> {"eel"},                     label |-> "animal_eel"],
       [words |-> {"starfish"},                label |-> "animal_starfish"],
       [words |-> {"shell"},                   label |-> "animal_shells"],
       [words |-> {"plant", "seaweed", "algae"}, label |-> "plant"],
       [words |-> {"rov", "robot"},            label |-> "rov"] >>

\* the label of the first rule that matches, or the fallback "trash_etc"
RuleLabel(firstRule) ==
    IF firstRule = 0 THEN "trash_etc" ELSE KeywordRules[firstRule].label

KeywordLabel(normalized) ==
    RuleLabel(FirstIndex(KeywordRules,
                         {r \in 1..Len(KeywordRules) :
                             \E word \in KeywordRules[r].words : Includes(normalized, word)}))

\* normalizeTypeName from "if (normalized in TYPE_ICONS)" on
NormalizedLabel(normalized, label) ==
    IF label # "" THEN label ELSE KeywordLabel(normalized)

NormalizeLowered(normalized) == NormalizedLabel(normalized, LabelOf(normalized))

\* normalizeTypeName of page.tsx
normalizeTypeName(rawType) ==
    IF rawType \in TYPE_ICONS THEN rawType
    ELSE NormalizeLowered(ReplaceSeparators(ToLowerCase(Chars(rawType))))

\* parseCountsDictionary of page.tsx: invalid entries are dropped
GenerateFromValid(valid) ==
    GenerateFromEntries([k \in 1..Len(valid) |->
                            [type  |-> normalizeTypeName(valid[k].key),
                             count |-> valid[k].count.v]])

parseCountsDictionaryPage(entries) ==
    IF entries = <<>> THEN <<>>
    ELSE GenerateFromValid(FilterIndices(entries,
                                         {k \in 1..Len(entries) : ValidCount(entries[k].count)},
                                         1))

\* JSON.stringify(entries.sort()) of the component: [["key",count],...], the
\* entries compared as the strings "key,count"
ComponentSorted(entries) ==
    SortByKey([k \in 1..Len(entries) |->
                  [key     |-> entries[k].key,
                   count   |-> entries[k].count.v,
                   sortKey |-> Chars(entries[k].key) \o <<44>>
                                 \o DecimalChars(entries[k].count.v)]])

\* parseCountsDictionary of trash-collection-visualizer.tsx: entries with
\* count > 0 are kept, entries of an unknown type generate nothing
GenerateFromSorted(entries) ==
    IF entries = <<>> THEN <<>>
    ELSE ForEachEntry(FilterIndices([k \in 1..Len(entries) |->
                                        [type |-> entries[k].key, count |-> entries[k].count]],
                                    {k \in 1..Len(entries) : entries[k].key \in TYPE_ICONS}, 1),
                      1,
                      JsonArray([k \in 1..Len(entries) |->
                                    JsonArray(<<JsonString(Chars(entries[k].key)),
                                                DecimalChars(entries[k].count)>>)]),
                      <<>>)

parseCountsDictionaryComponent(dictionary) ==
    GenerateFromSorted(ComponentSorted(
        FilterIndices(dictionary,
                      {k \in 1..Len(dictionary) : dictionary[k].count.v > 0}, 1)))

\* parseInput of part_008
parseInputSwarm(input) ==
    [k \in 1..Len(input) |->
        TrashPoint(IF input[k].id = "" THEN "point-" \o ToString(k - 1) ELSE input[k].id,
                   resolveType(input[k].typeKind, input[k].type),
                   input[k].x * RawDen, input[k].y * RawDen)]

-----------------------------------------------------------------------------
(* Plan construction                                                       *)

NoPlan == [present |-> FALSE]

\* average(values) of source coordinates
average(values) == IF values = <<>> THEN 0 ELSE SumSeq(values) \div Len(values)

SeqMin(s) == CHOOSE v \in Range(s) : \A w \in Range(s) : v <= w

SeqMax(s) == CHOOSE v \in Range(s) : \A w \in Range(s) : v >= w

RovIndices(points) == {k \in 1..Len(points) : points[k].type = "rov"}

\* Array.from(new Set(points.map(p => p.type)))
uniqueTypes(points) ==
    LET firsts == {k \in 1..Len(points) :
                      \A m \in 1..(k - 1) : points[m].type # points[k].type}
    IN  [k \in 1..Cardinality(firsts) |->
            FilterIndices(points, firsts, 1)[k].type]

AnimalTypes == {"animal_fish", "animal_starfish", "animal_shells", "animal_crab",
                "animal_eel", "animal_etc"}

TrashTypes == {"trash_etc", "trash_fabric", "trash_fishing_gear", "trash_metal",
               "trash_paper", "trash_plastic", "trash_rubber", "trash_wood"}

\* detectEnvironment; the component tests the animal prefix only
detectEnvironment(points, surf) ==
    IF \E k \in 1..Len(points) :
          \/ points[k].type \in AnimalTypes
          \/ surf # "component" /\ points[k].type = "trash_fishing_gear"
    THEN "underwater" ELSE "land"

\* normalizePoints: scale is the rational scaleNum / scaleDen (tenths of a pixel
\* per source unit of 1/RawDen); each canvas coordinate is rounded once
NormalizeWithScale(points, height, minX, minY, scaleNum, scaleDen, offsetX2, offsetY2) ==
    [k \in 1..Len(points) |->
        [id    |-> points[k].id,
         type  |-> points[k].type,
         x     |-> points[k].x,
         y     |-> points[k].y,
         normX |-> (offsetX2 + (2 * (points[k].x - minX) * scaleNum) + scaleDen)
                       \div (2 * scaleDen),
         normY |-> ((2 * height * scaleDen)
                    - (offsetY2 + (2 * (points[k].y - minY) * scaleNum)) + scaleDen)
                       \div (2 * scaleDen)]]

\* offsetX2 and offsetY2 are twice offsetX and offsetY, times scaleDen
NormalizeWithOffsets(points, height, minX, minY, rangeX, rangeY, padding, drawableWidth, drawableHeight, scaleNum, scaleDen) ==
    NormalizeWithScale(points, height, minX, minY, scaleNum, scaleDen,
        (2 * padding * scaleDen) + (drawableWidth * scaleDen) - (rangeX * scaleNum),
        (2 * padding * scaleDen) + (drawableHeight * scaleDen) - (rangeY * scaleNum))

\* scale = Math.min(drawableWidth / rangeX, drawableHeight / rangeY)
NormalizeDrawable(points, height, minX, minY, rangeX, rangeY, padding, drawableWidth, drawableHeight) ==
    IF drawableWidth * rangeY <= drawableHeight * rangeX
    THEN NormalizeWithOffsets(points, height, minX, minY, rangeX, rangeY, padding,
                              drawableWidth, drawableHeight, drawableWidth, rangeX)
    ELSE NormalizeWithOffsets(points, height, minX, minY, rangeX, rangeY, padding,
                              drawableWidth, drawableHeight, drawableHeight, rangeY)

NormalizeWithRanges(points, width, height, minX, minY, rangeX, rangeY, padding) ==
    NormalizeDrawable(points, height, minX, minY, rangeX, rangeY, padding,
                      width - (padding * 2), height - (padding * 2))

\* rangeX = maxX - minX || 1
NormalizeWithBounds(points, width, height, minX, maxX, minY, maxY) ==
    NormalizeWithRanges(points, width, height, minX, minY,
                        IF maxX - minX = 0 THEN RawDen ELSE maxX - minX,
                        IF maxY - minY = 0 THEN RawDen ELSE maxY - minY,
                        Min(width, height) \div 10)

NormalizeAxes(points, width, height, xs, ys) ==
    NormalizeWithBounds(points, width, height, SeqMin(xs), SeqMax(xs), SeqMin(ys), SeqMax(ys))

normalizePoints(points, width, height) ==
    IF points = <<>> THEN <<>>
    ELSE NormalizeAxes(points, width, height,
                       [k \in 1..Len(points) |-> points[k].x],
                       [k \in 1..Len(points) |-> points[k].y])

SyntheticRov(points) ==
    [id |-> "synthetic-rov", type |-> "rov",
     x |-> average([k \in 1..Len(points) |-> points[k].x]),
     y |-> average([k \in 1..Len(points) |-> points[k].y]),
     normX |-> 0, normY |-> 0]

\* the Plan record of buildPlan once base, targets and their order are known
PlanOfRoute(normalizedPoints, base, targets, orderedTargets, environment) ==
    [present          |-> TRUE,
     base             |-> base,
     targets          |-> targets,
     orderedTargets   |-> orderedTargets,
     smoothPath       |-> buildSmoothPath(
                              [k \in 1..(Len(orderedTargets) + 1) |->
                                  IF k = 1 THEN [x |-> base.normX, y |-> base.normY]
                                  ELSE [x |-> orderedTargets[k - 1].normX,
                                        y |-> orderedTargets[k - 1].normY]]),
     environment      |-> environment,
     uniqueTypes      |-> uniqueTypes(normalizedPoints),
     normalizedPoints |-> normalizedPoints]

\* buildPlan from "const targets = ..." on
PlanOfTargets(normalizedPoints, base, targets, environment) ==
    PlanOfRoute(normalizedPoints, base, targets, orderTargets(targets, base), environment)

\* buildPlan from "const base = ..." on
PlanOfBase(normalizedPoints, base, environment) ==
    PlanOfTargets(normalizedPoints, base,
                  FilterIndices(normalizedPoints,
                                {k \in 1..Len(normalizedPoints) :
                                    normalizedPoints[k].id # base.id}, 1),
                  environment)

\* buildPlan from "const normalizedPoints = ..." on
PlanOfPoints(normalizedPoints, environment) ==
    PlanOfBase(normalizedPoints,
               normalizedPoints[FirstIndex(normalizedPoints, RovIndices(normalizedPoints))],
               environment)

\* buildPlan of page.tsx, trash-collection-visualizer.tsx and README.md
buildPlan(points, canvasSize, surf) ==
    LET augmentedPoints == IF RovIndices(points) # {} THEN points
                           ELSE Append(points, SyntheticRov(points))
    IN  PlanOfPoints(normalizePoints(augmentedPoints, canvasSize.width, canvasSize.height),
                     detectEnvironment(augmentedPoints, surf))

\* buildPlan of part_008; null is NoPlan
SwarmPlanOfRoute(normalized, base, targets, orderedTargets) ==
    [present          |-> TRUE,
     base             |-> base,
     targets          |-> targets,
     orderedTargets   |-> orderedTargets,
     smoothPath       |-> buildSmoothPathSwarm(<<base>> \o orderedTargets \o <<base>>),
     environment      |-> "underwater",
     uniqueTypes      |-> uniqueTypes(normalized),
     normalizedPoints |-> normalized]

SwarmPlanOfTargets(normalized, base, targets) ==
    SwarmPlanOfRoute(normalized, base, targets, greedySort(base, targets))

\* buildPlan of part_008 from "const base = ..." on
SwarmPlanOfBase(normalized, baseIndex) ==
    IF normalized = <<>> \/ baseIndex = 0 THEN NoPlan
    ELSE SwarmPlanOfTargets(normalized, normalized[baseIndex],
                            FilterIndices(normalized,
                                          {k \in 1..Len(normalized) :
                                              /\ normalized[k].type # "rov"
                                              /\ normalized[k].type \in TrashTypes}, 1))

SwarmPlanOfPoints(normalized) ==
    SwarmPlanOfBase(normalized, FirstIndex(normalized, RovIndices(normalized)))

buildPlanSwarm(points, size) ==
    SwarmPlanOfPoints([k \in 1..Len(points) |->
                          [id    |-> points[k].id,
                           type  |-> points[k].type,
                           x     |-> points[k].x,
                           y     |-> points[k].y,
                           normX |-> (points[k].x * size.width) \div (100 * RawDen),
                           normY |-> (points[k].y * size.height) \div (100 * RawDen)]])

-----------------------------------------------------------------------------
(* Playback queries                                                        *)

DURATION_MS == 10000

\* progress, in units of 1/DURATION_MS: Math.min(1, elapsed / DURATION_MS)
progressConstantSpeed(p, e) ==
    IF ~p.present \/ p.smoothPath.totalLength = 0 THEN 0
    ELSE Min(DURATION_MS, (e * DURATION_MS) \div p.smoothPath.totalLength)

progress(p, e) ==
    IF ~p.present \/ p.smoothPath.totalLength = 0 THEN 0
    ELSE Min(DURATION_MS, e)

\* the length still ahead of the collector instead of the length behind it
distanceRemaining(p, e) ==
    IF ~p.present \/ p.smoothPath.totalLength = 0 THEN 0
    ELSE (p.smoothPath.totalLength * (DURATION_MS - progress(p, e))) \div DURATION_MS

\* plan.smoothPath.totalLength * progress
distanceTravelled(p, e) ==
    IF ~p.present \/ p.smoothPath.totalLength = 0 THEN 0
    ELSE (p.smoothPath.totalLength * progress(p, e)) \div DURATION_MS

\* segmentDistances.filter(d => d <= distanceTravelled + 1e-3).length; the
\* tolerance is below one unit of length
collectedCount(p, e) ==
    IF ~p.present THEN 0
    ELSE Cardinality({k \in 1..Len(p.smoothPath.segmentDistances) :
                         p.smoothPath.segmentDistances[k] <= distanceTravelled(p, e)})

\* drawTargets: targetDistance <= distanceTravelled + 1e-3 for target index k
collected(p, e, k) ==
    p.smoothPath.segmentDistances[k] <= distanceTravelled(p, e)

-----------------------------------------------------------------------------
(* Spec: the four surfaces as state machines                               *)

Surfaces == {"visual", "page", "component", "swarm"}

Item(id, x, y, typeKind, type) ==
    [id |-> id, hasXY |-> TRUE, x |-> x, y |-> y, typeKind |-> typeKind, type |-> type]

ItemWithoutXY(id, typeKind, type) ==
    [id |-> id, hasXY |-> FALSE, x |-> 0, y |-> 0, typeKind |-> typeKind, type |-> type]

ArrayDoc(items) == [kind |-> "array", items |-> items, entries |-> <<>>]

DictDoc(entries) == [kind |-> "dict", items |-> <<>>, entries |-> entries]

Count(v) == [kind |-> "number", v |-> v]

Entry(key, count) == [key |-> key, count |-> count]

\* DEFAULT_INPUT of README.md and DEFAULT_TRASH_POINTS of part_008
DEFAULT_TRASH_POINTS ==
    <<Item("rov-base", 5, 5, "string", "rov"),
      Item("plastic-01", 40, 60, "string", "trash_plastic"),
      Item("paper-01", 75, 35, "string", "trash_paper"),
      Item("metal-01", 52, 80, "string", "trash_metal"),
      Item("fabric-01", 20, 30, "string", "trash_fabric"),
      Item("fish-01", 65, 65, "string", "animal_fish"),
      Item("crab-01", 18, 78, "string", "animal_crab"),
      Item("wood-01", 85, 15, "string", "trash_wood"),
      Item("gear-01", 32, 90, "string", "trash_fishing_gear")>>

DEFAULT_INPUT == ArrayDoc(DEFAULT_TRASH_POINTS)

\* the documents typed into the input box of the visual surface
InputDocs ==
    {DEFAULT_INPUT,
     [kind |-> "invalid", items |-> <<>>, entries |-> <<>>],
     [kind |-> "scalar", items |-> <<>>, entries |-> <<>>],
     ArrayDoc(<<>>),
     DictDoc(<<>>),
     ArrayDoc(<<Item("rov-1", 5, 5, "number", "0"),
                Item("rov-1", 80, 20, "string", "trash_metal"),
                Item("", 50, 50, "string", "trash_plastic")>>),
     ArrayDoc(<<Item("p1", 50, 50, "string", "trash_plastic")>>),
     ArrayDoc(<<Item("p1", 50, 50, "string", "trash_plastic"),
                ItemWithoutXY("p2", "string", "trash_paper")>>),
     ArrayDoc(<<Item("p1", 50, 50, "undefined", "")>>),
     ArrayDoc(<<Item("p1", 50, 50, "string", "glass")>>),
     DictDoc(<<Entry("13", Count(1)), Entry("trash_metal", Count(2))>>),
     DictDoc(<<Entry("trash_plastic", Count(2)), Entry("trash_metal", Count(0))>>),
     DictDoc(<<Entry("glass", Count(1))>>)}

\* the bodies of the backend's responses with available = true: data.counts
PollCounts ==
    {<<Entry("trash_plastic", Count(2)), Entry("trash_metal", Count(1))>>,
     <<Entry("trash_plastic", Count(2)), Entry("trash_metal", Count(0))>>,
     <<Entry("plastic", Count(1)), Entry("trash_plastic", Count(1)),
       Entry("_total", Count(2))>>,
     <<Entry("rov", Count(1)), Entry("robot", Count(1)), Entry("glass", Count(1))>>,
     <<Entry("Metal Can", Count(1))>>,
     <<Entry("trash_plastic", Count(0))>>,
     <<Entry("_total", Count(3)), Entry("trash_wood", [kind |-> "string", v |-> 2])>>}

\* the values of the counts prop of the component
PropCounts ==
    {<<>>,
     <<Entry("trash_plastic", Count(2)), Entry("trash_metal", Count(1))>>,
     <<Entry("trash_metal", Count(1)), Entry("trash_plastic", Count(2))>>,
     <<Entry("rov", Count(1)), Entry("trash_paper", Count(3)), Entry("glass", Count(1))>>,
     <<Entry("trash_plastic", Count(1))>>,
     <<Entry("trash_plastic", Count(2)), Entry("trash_metal", Count(0))>>,
     <<Entry("trash_plastic", Count(-1))>>}

\* widths reported by the ResizeObserver; the height follows from CANVAS_ASPECT
ContainerWidths == {9600, 6400}

AspectSize(width) == [width |-> width, height |-> (width * 9) \div 16]

\* whole-pixel sizes of the swarm surface's container
SwarmSizes == {[width |-> 9600, height |-> 5400], [width |-> 6400, height |-> 4800]}

\* deltas between two frame timestamps
FrameDeltas == {4000, 7000}

\* delta of a first frame whose timestamp precedes the effect's performance.now()
EarlyFrameDeltas == {-16}

\* the useMemo that yields plan
ComputePlan(surf, points, size) ==
    IF surf = "swarm"
    THEN (IF points = <<>> \/ size.width = 0 \/ size.height = 0 THEN NoPlan
          ELSE buildPlanSwarm(points, size))
    ELSE (IF points = <<>> THEN NoPlan ELSE buildPlan(points, size, surf))

\* the entries kept by fetchCounts: no "_" prefix, typeof value === "number"
FilteredCounts(dataCounts) ==
    FilterIndices(dataCounts,
                  {k \in 1..Len(dataCounts) :
                      /\ Chars(dataCounts[k].key)[1] # 95
                      /\ dataCounts[k].count.kind \in {"number", "infinite"}}, 1)

\* The parses and plans below are tabulated once over the inputs that occur, so
\* that a step looks its result up instead of computing it again.

\* parseInput(inputValue) for every document of the input box
ParsedInput == [doc \in InputDocs |-> parseInput(doc)]

\* parseCountsDictionary(detectionCounts) for every value of detectionCounts
PageGenerated ==
    [dictionary \in {FilteredCounts(dataCounts) : dataCounts \in PollCounts} |->
        parseCountsDictionaryPage(dictionary)]

\* parseCountsDictionary(counts) for every value of the counts prop
ComponentGenerated ==
    [dictionary \in PropCounts |-> parseCountsDictionaryComponent(dictionary)]

InitialPoints(surf) ==
    IF surf = "visual" THEN ParsedInput[DEFAULT_INPUT].points
    ELSE IF surf = "swarm" THEN parseInputSwarm(DEFAULT_TRASH_POINTS)
    ELSE <<>>

InitialSize(surf) ==
    IF surf \in {"visual", "page"} THEN AspectSize(9600)
    ELSE IF surf = "component" THEN AspectSize(8000)
    ELSE [width |-> 0, height |-> 0]

PointSets(surf) ==
    IF surf = "visual" THEN {parseInput(doc).points : doc \in InputDocs}
    ELSE IF surf = "page"
    THEN {<<>>} \cup {parseCountsDictionaryPage(FilteredCounts(dataCounts)) :
                         dataCounts \in PollCounts}
    ELSE IF surf = "component"
    THEN {<<>>} \cup {parseCountsDictionaryComponent(dictionary) : dictionary \in PropCounts}
    ELSE {parseInputSwarm(DEFAULT_TRASH_POINTS)}

SizesOf(surf) ==
    {InitialSize(surf)} \cup (IF surf = "swarm" THEN SwarmSizes
                              ELSE {AspectSize(width) : width \in ContainerWidths})

\* plan for every surface, point set and container size that occurs
PlanTable ==
    [key \in UNION {{<<surf, points, size>> : points \in PointSets(surf), size \in SizesOf(surf)} :
                       surf \in Surfaces} |->
        ComputePlan(key[1], key[2], key[3])]

Init ==
    /\ surface \in Surfaces
    /\ inputValue = IF surface = "visual" THEN DEFAULT_INPUT
                    ELSE [kind |-> "none", items |-> <<>>, entries |-> <<>>]
    /\ counts = <<>>
    /\ trashPoints = InitialPoints(surface)
    /\ error = NoError
    /\ isPlaying = FALSE
    /\ elapsed = 0
    /\ last = "none"
    /\ containerSize = InitialSize(surface)
    /\ plan = PlanTable[<<surface, trashPoints, containerSize>>]
    /\ pc = "ui"
    /\ args = [impl |-> "none"]
    /\ result = NoPlan

\* the three state updates that follow every installation of a point set
Install(points) ==
    /\ trashPoints' = points
    /\ plan' = PlanTable[<<surface, trashPoints', containerSize>>]
    /\ elapsed' = 0
    /\ isPlaying' = FALSE
    /\ last' = "none"

\* onChange of the input box (and handleUpload)
SetInputValue(doc) ==
    /\ pc = "ui"
    /\ surface = "visual"
    /\ inputValue' = doc
    /\ UNCHANGED <<surface, counts, trashPoints, error, isPlaying, elapsed, last,
                   containerSize, plan, pc, args, result>>

\* the catch branch of handleApply
ApplyFailureResets(parsed) ==
    /\ error' = parsed.error
    /\ Install(<<>>)

ApplyFailure(parsed) ==
    /\ error' = parsed.error
    /\ UNCHANGED <<trashPoints, plan, elapsed, isPlaying, last>>

\* handleApply of README.md
HandleApply ==
    /\ pc = "ui"
    /\ surface = "visual"
    /\ \E parsed \in {ParsedInput[inputValue]} :
          IF parsed.ok
          THEN Install(parsed.points) /\ error' = NoError
          ELSE ApplyFailure(parsed)
    /\ UNCHANGED <<surface, inputValue, counts, containerSize, pc, args, result>>

\* fetchCounts with a response carrying counts, and the effect on [detectionCounts]
PollCountsReceived(dataCounts) ==
    /\ pc = "ui"
    /\ surface = "page"
    /\ FilteredCounts(dataCounts) # <<>>
    /\ counts' = FilteredCounts(dataCounts)
    /\ Install(PageGenerated[counts'])
    /\ UNCHANGED <<surface, inputValue, error, containerSize, pc, args, result>>

\* fetchCounts with a failed, non-JSON or unavailable response, or one whose
\* counts are all filtered out
PollWithoutCounts ==
    /\ pc = "ui"
    /\ surface = "page"
    /\ UNCHANGED vars

\* the parent renders the component with a new counts object
SetCounts(dictionary) ==
    /\ pc = "ui"
    /\ surface = "component"
    /\ counts' = dictionary
    /\ IF dictionary # <<>>
       THEN Install(ComponentGenerated[dictionary])
       ELSE UNCHANGED <<trashPoints, plan, elapsed, isPlaying, last>>
    /\ UNCHANGED <<surface, inputValue, error, containerSize, pc, args, result>>

HandlePlayPause ==
    /\ pc = "ui"
    /\ plan.present
    /\ Len(plan.targets) > 0
    /\ elapsed' = IF elapsed >= DURATION_MS THEN 0 ELSE elapsed
    /\ isPlaying' = ~isPlaying
    /\ last' = IF isPlaying THEN "none" ELSE "effect"
    /\ UNCHANGED <<surface, inputValue, counts, trashPoints, error, containerSize,
                   plan, pc, args, result>>

HandleRestart ==
    /\ pc = "ui"
    /\ elapsed' = 0
    /\ isPlaying' = FALSE
    /\ last' = "none"
    /\ UNCHANGED <<surface, inputValue, counts, trashPoints, error, containerSize,
                   plan, pc, args, result>>

\* one frame callback; eager tells whether React ran the updater of setElapsed
\* before `finished` was tested
Tick(delta, eager) ==
    /\ pc = "ui"
    /\ isPlaying
    /\ LET next == Min(DURATION_MS, elapsed + delta)
           finished == eager /\ next >= DURATION_MS
       IN  /\ elapsed' = next
           /\ isPlaying' = ~finished
           /\ last' = IF finished THEN "none" ELSE "frame"
    /\ UNCHANGED <<surface, inputValue, counts, trashPoints, error, containerSize,
                   plan, pc, args, result>>

\* a frame whose timestamp is later than `last`
TickForward == \E delta \in FrameDeltas : \E eager \in BOOLEAN : Tick(delta, eager)

\* the first frame of an effect, with a timestamp earlier than `last`
TickEarly ==
    /\ last = "effect"
    /\ elapsed = 0
    /\ \E delta \in EarlyFrameDeltas : \E eager \in BOOLEAN : Tick(delta, eager)

\* a resize that also rewinds and stops the playback
ResizeAndRewind(size) ==
    /\ pc = "ui"
    /\ size # containerSize
    /\ IF surface = "swarm" THEN size \in SwarmSizes
       ELSE \E width \in ContainerWidths : size = AspectSize(width)
    /\ containerSize' = size
    /\ plan' = PlanTable[<<surface, trashPoints, size>>]
    /\ elapsed' = 0
    /\ isPlaying' = FALSE
    /\ UNCHANGED <<surface, inputValue, counts, trashPoints, error, last, pc, args, result>>

\* ResizeObserver callback
Resize(size) ==
    /\ pc = "ui"
    /\ size # containerSize
    /\ IF surface = "swarm" THEN size \in SwarmSizes
       ELSE \E width \in ContainerWidths : size = AspectSize(width)
    /\ containerSize' = size
    /\ plan' = PlanTable[<<surface, trashPoints, size>>]
    /\ UNCHANGED <<surface, inputValue, counts, trashPoints, error, isPlaying, elapsed,
                   last, pc, args, result>>

Sizes == SwarmSizes \cup {AspectSize(width) : width \in ContainerWidths}

Next ==
    \/ \E doc \in InputDocs : SetInputValue(doc)
    \/ HandleApply
    \/ \E dataCounts \in PollCounts : PollCountsReceived(dataCounts)
    \/ PollWithoutCounts
    \/ \E dictionary \in PropCounts : SetCounts(dictionary)
    \/ HandlePlayPause
    \/ HandleRestart
    \/ TickForward
    \/ TickEarly
    \/ \E size \in Sizes : Resize(size)

Spec == Init /\ [][Next]_vars

\* C2: for a Plan of positive length, elapsed = DURATION_MS gives progress 1 and
\* travelled distance totalLength, and 0 <= elapsed < DURATION_MS gives progress
\* elapsed / DURATION_MS and travelled distance totalLength * progress.
C2_ConstantDuration ==
    (pc = "ui" /\ plan.present /\ plan.smoothPath.totalLength > 0) =>
        /\ elapsed = DURATION_MS =>
              /\ progress(plan, elapsed) = DURATION_MS
              /\ distanceTravelled(plan, elapsed) = plan.smoothPath.totalLength
        /\ (0 <= elapsed /\ elapsed < DURATION_MS) =>
              /\ progress(plan, elapsed) = elapsed
              /\ distanceTravelled(plan, elapsed)
                    = (plan.smoothPath.totalLength * elapsed) \div DURATION_MS

C2_Witness ==
    /\ pc = "ui"
    /\ plan.present
    /\ plan.smoothPath.totalLength > 0
    /\ Len(plan.targets) >= 2
    /\ elapsed = DURATION_MS
    /\ distanceTravelled(plan, elapsed) = plan.smoothPath.totalLength

HasInvalidCount(entries) == \E k \in 1..Len(entries) : ~ValidCount(entries[k].count)

\* C8: a count dictionary with a count that is non-positive, non-finite or not a
\* number is rejected before any planning: no point set and no Plan is installed
\* from it, and where errors are shown an error is set.
C8_InvalidCountsRejected ==
    [][\A entries \in PollCounts \cup PropCounts \cup {doc.entries : doc \in InputDocs} :
          ( /\ HasInvalidCount(entries)
            /\ \/ PollCountsReceived(entries)
               \/ SetCounts(entries)
               \/ inputValue.kind = "dict" /\ inputValue.entries = entries /\ HandleApply )
          => ( /\ UNCHANGED <<trashPoints, plan>>
               /\ surface = "visual" => error' # NoError )]_vars

\* C8 on the visual surface alone
VisualRejectsInvalidCounts ==
    [][( /\ inputValue.kind = "dict"
         /\ HasInvalidCount(inputValue.entries)
         /\ HandleApply )
       => (UNCHANGED <<trashPoints, plan>> /\ error' # NoError)]_vars

\* C9: when applying new input fails validation, the installed point set, the
\* Plan, elapsed and isPlaying are unchanged and only the error message is set.
C9_FailedApplyKeepsState ==
    [][(HandleApply /\ ~ParsedInput[inputValue].ok)
       => ( /\ UNCHANGED <<trashPoints, plan, elapsed, isPlaying>>
            /\ error' = ParsedInput[inputValue].error
            /\ error' # NoError )]_vars

\* a failed apply has left its message while a playback over the earlier point
\* set is under way
C9_Witness ==
    /\ surface = "visual"
    /\ ~ParsedInput[inputValue].ok
    /\ error = ParsedInput[inputValue].error
    /\ isPlaying
    /\ elapsed > 0
    /\ plan.present
    /\ trashPoints # <<>>

\* C10: a structurally valid input that supplies zero points (an empty array or
\* an empty count dictionary) results in an absent Plan and no error.
C10_ZeroPointsGiveNoPlan ==
    [][( \/ HandleApply /\ inputValue \in {ArrayDoc(<<>>), DictDoc(<<>>)}
         \/ SetCounts(<<>>) )
       => (plan' = NoPlan /\ error' = NoError)]_vars

\* C10 for the empty array alone
EmptyArrayGivesNoPlan ==
    [][(HandleApply /\ inputValue = ArrayDoc(<<>>))
       => (plan' = NoPlan /\ trashPoints' = <<>> /\ error' = NoError)]_vars

-----------------------------------------------------------------------------
(* SpecPlayback: the surfaces with the user leaving a running playback     *)
(* alone (no pause, no restart, no new data while it plays), and frame     *)
(* callbacks with positive deltas that keep arriving                       *)

Play == ~isPlaying /\ HandlePlayPause

NextPlayback ==
    \/ ~isPlaying /\ \E doc \in InputDocs : SetInputValue(doc)
    \/ ~isPlaying /\ HandleApply
    \/ ~isPlaying /\ \E dictionary \in PropCounts : SetCounts(dictionary)
    \/ \E dataCounts \in PollCounts : PollCountsReceived(dataCounts)
    \/ PollWithoutCounts
    \/ Play
    \/ TickForward
    \/ \E size \in Sizes : Resize(size)

SpecPlayback == Init /\ [][NextPlayback]_vars /\ WF_vars(TickForward)

\* C3: once Play has been pressed on a Plan with at least one target, elapsed
\* eventually reaches DURATION_MS and progress reaches 1, on every surface.
C3_PlaybackCompletes ==
    (isPlaying /\ plan.present /\ Len(plan.targets) >= 1)
        ~> (elapsed = DURATION_MS /\ progress(plan, elapsed) = DURATION_MS)

\* C3 on the polling page alone, for a path of positive length
PagePlaybackCompletes ==
    (isPlaying /\ surface = "page" /\ plan.present /\ plan.smoothPath.totalLength > 0)
        ~> (elapsed = DURATION_MS)

\* off the polling page the accumulator does reach the duration
ElapsedReachesDuration ==
    (isPlaying /\ surface # "page") ~> (elapsed = DURATION_MS)

-----------------------------------------------------------------------------
(* The state of a surface while a single function is studied               *)

UiIdle ==
    /\ surface = "none"
    /\ inputValue = [kind |-> "none", items |-> <<>>, entries |-> <<>>]
    /\ counts = <<>>
    /\ trashPoints = <<>>
    /\ error = NoError
    /\ isPlaying = FALSE
    /\ elapsed = 0
    /\ last = "none"
    /\ containerSize = [width |-> 0, height |-> 0]
    /\ plan = NoPlan

-----------------------------------------------------------------------------
(* SpecPlanner: the route planners applied to every base and target list   *)
(* over a small set of sites                                               *)

MaxTargets == 4

\* collinear and off-line sites, whole source units
PlannerSites == {<<0, 0>>, <<-10, 0>>, <<11, 0>>, <<-32, 0>>, <<0, 7>>}

SitePoint(id, type, site) ==
    [id |-> id, type |-> type, x |-> site[1] * RawDen, y |-> site[2] * RawDen,
     normX |-> 0, normY |-> 0]

TargetIds == <<"t1", "t2", "t3", "t4", "t5", "t6">>

PlannerTargets(sites) ==
    [k \in 1..Len(sites) |-> SitePoint(TargetIds[k], "trash_plastic", sites[k])]

\* length of a route: base to the first stop, then stop to stop
RECURSIVE LegsLength(_, _)
LegsLength(from, stops) ==
    IF stops = <<>> THEN 0
    ELSE distance(from, Head(stops)) + LegsLength(Head(stops), Tail(stops))

RouteLength(base, targets, route) ==
    LegsLength(base, [k \in 1..Len(route) |-> targets[route[k]]])

InitPlanner ==
    /\ UiIdle
    /\ pc = "call"
    /\ \E impl \in {"orderTargets", "greedySort"},
          b \in PlannerSites, ts \in SeqsUpTo(PlannerSites, MaxTargets) :
          args = [impl |-> impl, base |-> SitePoint("rov-1", "rov", b),
                  targets |-> PlannerTargets(ts)]
    /\ result = [nn |-> <<>>, route |-> <<>>, ordered |-> <<>>]

\* orderTargets up to the end of the construction loop
Construct ==
    /\ pc = "call"
    /\ args.impl = "orderTargets"
    /\ IF args.targets = <<>>
       THEN /\ pc' = "done"
            /\ UNCHANGED result
       ELSE /\ pc' = "twoOpt"
            /\ LET nn == NearestNeighbourRoute(args.targets, args.base)
               IN  result' = [nn |-> nn, route |-> nn, ordered |-> <<>>]
    /\ UNCHANGED <<args, uiVars>>

\* orderTargets from the 2-opt block to its return
Refine ==
    /\ pc = "twoOpt"
    /\ pc' = "done"
    /\ LET route == TwoOptRefine(args.targets, result.route)
       IN  result' = [nn |-> result.nn, route |-> route,
                      ordered |-> [k \in 1..Len(route) |-> args.targets[route[k]]]]
    /\ UNCHANGED <<args, uiVars>>

GreedySortCall ==
    /\ pc = "call"
    /\ args.impl = "greedySort"
    /\ pc' = "done"
    /\ result' = [nn |-> <<>>, route |-> <<>>,
                  ordered |-> greedySort(args.base, args.targets)]
    /\ UNCHANGED <<args, uiVars>>

NextPlanner == Construct \/ Refine \/ GreedySortCall

SpecPlanner == InitPlanner /\ [][NextPlanner]_vars

\* how often p occurs in s
Occurrences(s, p) == Cardinality({k \in 1..Len(s) : s[k] = p})

IsPermutationOf(s, t) ==
    /\ Len(s) = Len(t)
    /\ \A p \in Range(s) \cup Range(t) : Occurrences(s, p) = Occurrences(t, p)

\* C1: the route returned by the planner (nearest-neighbour construction and
\* 2-opt refinement in orderTargets, greedy construction in greedySort) holds
\* every input target exactly once: it is a permutation of the targets, also
\* for no targets and for co-located targets.
C1_RouteIsPermutation ==
    pc = "done" => IsPermutationOf(result.ordered, args.targets)

\* orderTargets has returned a route over four or more targets, two of them
\* at the same place
C1_Witness ==
    /\ pc = "done"
    /\ args.impl = "orderTargets"
    /\ Len(args.targets) >= 4
    /\ Len(result.ordered) = Len(args.targets)
    /\ \E i, j \in 1..Len(args.targets) :
          i # j /\ args.targets[i].x = args.targets[j].x /\ args.targets[i].y = args.targets[j].y

\* C4: the route after 2-opt refinement is no longer than the route of
\* nearest-neighbour construction alone, the leg from the base included.
C4_TwoOptNoRegression ==
    (pc = "done" /\ args.impl = "orderTargets") =>
        RouteLength(args.base, args.targets, result.route)
            <= RouteLength(args.base, args.targets, result.nn)

\* 2-opt changed the route and made it strictly shorter
C4_Witness ==
    /\ pc = "done"
    /\ args.impl = "orderTargets"
    /\ result.route # result.nn
    /\ RouteLength(args.base, args.targets, result.route)
           < RouteLength(args.base, args.targets, result.nn)

-----------------------------------------------------------------------------
(* SpecBuildPlan: both plan builders applied to every non-empty point list *)
(* of length 1..MaxPoints over a small set of points                       *)

MaxPoints == 3

RawPoint(id, type, x, y) ==
    [id |-> id, type |-> type, x |-> x * RawDen, y |-> y * RawDen, normX |-> 0, normY |-> 0]

\* two robots, two plastics at distinct places (one on a robot's place), an
\* animal, and two pieces of trash whose ids are those of a robot
BuildPlanPoints ==
    {RawPoint("rov-1", "rov", 5, 5),
     RawPoint("rov-2", "rov", 50, 50),
     RawPoint("p1", "trash_plastic", 50, 50),
     RawPoint("p2", "trash_plastic", 20, 80),
     RawPoint("f1", "animal_fish", 65, 65),
     RawPoint("rov-1", "trash_metal", 80, 20),
     RawPoint("synthetic-rov", "trash_paper", 35, 20)}

PlanCanvas == [width |-> 9600, height |-> 5400]

InitBuildPlan ==
    /\ UiIdle
    /\ pc = "call"
    /\ \E impl \in {"buildPlan", "buildPlanSwarm"} :
       \E points \in SeqsUpTo(BuildPlanPoints, MaxPoints) \ {<<>>} :
          args = [impl |-> impl, points |-> points]
    /\ result = NoPlan

BuildPlanCall ==
    /\ pc = "call"
    /\ args.impl = "buildPlan"
    /\ result' = buildPlan(args.points, PlanCanvas, "page")
    /\ pc' = "done"
    /\ UNCHANGED <<args, uiVars>>

BuildPlanSwarmCall ==
    /\ pc = "call"
    /\ args.impl = "buildPlanSwarm"
    /\ result' = buildPlanSwarm(args.points, PlanCanvas)
    /\ pc' = "done"
    /\ UNCHANGED <<args, uiVars>>

NextBuildPlan == BuildPlanCall \/ BuildPlanSwarmCall

SpecBuildPlan == InitBuildPlan /\ [][NextBuildPlan]_vars

SamePoint(p, q) == p.id = q.id /\ p.type = q.type /\ p.x = q.x /\ p.y = q.y

\* C5: every non-empty point list yields a Plan whose base is the first "rov"
\* point of the input when there is one, and otherwise a synthesized "rov"
\* placed at the centroid of the input points.
C5_ExactlyOneBase ==
    pc = "done" =>
        /\ result.present
        /\ LET points == args.points
               first == FirstIndex(points, RovIndices(points))
           IN  IF first # 0
               THEN SamePoint(result.base, points[first])
               ELSE /\ result.base.type = "rov"
                    /\ Len(points) * result.base.x
                          = SumSeq([k \in 1..Len(points) |-> points[k].x])
                    /\ Len(points) * result.base.y
                          = SumSeq([k \in 1..Len(points) |-> points[k].y])

\* C5 on the three surfaces that share buildPlan of page.tsx
BuildPlanHasBase == args.impl = "buildPlan" => C5_ExactlyOneBase

\* C6: the targets of a Plan are all the points of the input other than the
\* base, each once and in input order, whatever their type or id.
C6_TargetsAreNonBasePoints ==
    (pc = "done" /\ result.present) =>
        LET points == args.points
            first == FirstIndex(points, RovIndices(points))
            others == IF first = 0 THEN points ELSE Splice(points, first)
        IN  /\ Len(result.targets) = Len(others)
            /\ \A k \in 1..Len(others) : SamePoint(result.targets[k], others[k])

-----------------------------------------------------------------------------
(* SpecSmooth: both path builders applied to every waypoint list of length *)
(* 0..MaxWaypoints over a small set of canvas sites                        *)

MaxWaypoints == 3

\* canvas sites, tenths of a pixel
SmoothSites == {<<0, 0>>, <<300, 0>>, <<300, 400>>, <<1000, 200>>}

CanvasVec(site) == [x |-> site[1], y |-> site[2]]

\* a NormalizedTrashPoint drawn at the site, its source position a tenth of it
CanvasPoint(site) ==
    [id |-> "p", type |-> "trash_plastic",
     x |-> (site[1] \div 10) * RawDen, y |-> (site[2] \div 10) * RawDen,
     normX |-> site[1], normY |-> site[2]]

EmptyPath == [points |-> <<>>, cumulative |-> <<>>, totalLength |-> 0,
              segmentDistances |-> <<>>]

InitSmooth ==
    /\ UiIdle
    /\ pc = "call"
    /\ \E impl \in {"buildSmoothPath", "buildSmoothPathSwarm"},
          ws \in SeqsUpTo(SmoothSites, MaxWaypoints) :
          args = [impl |-> impl, waypoints |-> ws]
    /\ result = EmptyPath

BuildSmoothPathCall ==
    /\ pc = "call"
    /\ args.impl = "buildSmoothPath"
    /\ pc' = "done"
    /\ result' = buildSmoothPath([k \in 1..Len(args.waypoints) |->
                                     CanvasVec(args.waypoints[k])])
    /\ UNCHANGED <<args, uiVars>>

BuildSmoothPathSwarmCall ==
    /\ pc = "call"
    /\ args.impl = "buildSmoothPathSwarm"
    /\ pc' = "done"
    /\ result' = buildSmoothPathSwarm([k \in 1..Len(args.waypoints) |->
                                          CanvasPoint(args.waypoints[k])])
    /\ UNCHANGED <<args, uiVars>>

NextSmooth == BuildSmoothPathCall \/ BuildSmoothPathSwarmCall

SpecSmooth == InitSmooth /\ [][NextSmooth]_vars

NonDecreasing(s) == \A k \in 1..(Len(s) - 1) : s[k] <= s[k + 1]

WellFormedPath(path) ==
    /\ Len(path.cumulative) = Len(path.points)
    /\ Len(path.cumulative) >= 1
    /\ path.cumulative[1] = 0
    /\ NonDecreasing(path.cumulative)
    /\ path.cumulative[Len(path.cumulative)] = path.totalLength

\* C7: for every waypoint list (none, one or more waypoints) the SmoothPath
\* returned by buildSmoothPath is well formed: cumulative is as long as
\* points, starts at 0, never decreases and ends at totalLength.
C7_SmoothPathWellFormed ==
    pc = "done" => WellFormedPath(result)

\* the same for the spline builder of the page, the component and the README alone
SplinePathWellFormed ==
    (pc = "done" /\ args.impl = "buildSmoothPath") => WellFormedPath(result)

-----------------------------------------------------------------------------
(* Boundary plans: no target, one target (SpecBuildPlan)                   *)

\* the elapsed values the frame deltas can produce within two frames
PlaybackInstants == {Min(DURATION_MS, a + b) : a, b \in FrameDeltas \cup {0}}

CanvasOf(p) == [x |-> p.normX, y |-> p.normY]

\* the path is the single segment from the base to the target
BaseToTargetOnly(p) ==
    /\ Len(p.smoothPath.segmentDistances) = 1
    /\ p.smoothPath.points[1] = CanvasOf(p.base)
    /\ LastOf(p.smoothPath.points) = CanvasOf(p.orderedTargets[1])
    /\ p.smoothPath.segmentDistances[1] = p.smoothPath.totalLength

BoundaryPlan(p) ==
    /\ Len(p.targets) = 0 =>
          /\ p.orderedTargets = <<>>
          /\ p.smoothPath.totalLength = 0
          /\ \A e \in PlaybackInstants : collectedCount(p, e) = 0
    /\ Len(p.targets) = 1 =>
          /\ p.orderedTargets = p.targets
          /\ BaseToTargetOnly(p)

\* C11: a Plan with a base and no target has an empty route, a path of length
\* 0 and a collected count of 0 at every elapsed time; a Plan with one target
\* has that target as its route and a path made of the base-to-target segment
\* only.
C11_BoundaryPlans ==
    (pc = "done" /\ result.present) => BoundaryPlan(result)

\* C11 for buildPlan of the page, the component and the README alone
SplineBoundaryPlans ==
    (pc = "done" /\ result.present /\ args.impl = "buildPlan") => BoundaryPlan(result)

\* a boundary plan of each kind has been built by the spline surfaces
SplineBoundaryPlansBuilt ==
    /\ pc = "done" /\ result.present /\ args.impl = "buildPlan"
    /\ Len(result.targets) = 1
    /\ result.smoothPath.totalLength > 0

-----------------------------------------------------------------------------
(* Pause, resume and restart (Spec)                                        *)

\* while isPlaying is false elapsed changes only by being reset to 0
PausedElapsedOnlyResets ==
    [][(~isPlaying /\ elapsed' # elapsed) => elapsed' = 0]_vars

\* a click on Pause stops the playback and keeps elapsed
PauseKeepsElapsed ==
    [][(isPlaying /\ HandlePlayPause) => (~isPlaying' /\ elapsed' = elapsed)]_vars

\* a click on Play before the end starts the playback from the paused value
ResumeKeepsElapsed ==
    [][(~isPlaying /\ elapsed < DURATION_MS /\ HandlePlayPause)
           => (isPlaying' /\ elapsed' = elapsed)]_vars

\* Restart is available in every state and gives elapsed = 0, isPlaying = false
RestartResets ==
    /\ [](ENABLED HandleRestart)
    /\ [][HandleRestart => (elapsed' = 0 /\ ~isPlaying')]_vars

\* C12: while isPlaying is false no frame callback changes elapsed: pausing
\* keeps elapsed at its current value, resuming continues from that value,
\* and Restart sets elapsed = 0 and isPlaying = false from any state.
C12_PauseFreezesRestartResets ==
    /\ PausedElapsedOnlyResets
    /\ PauseKeepsElapsed
    /\ ResumeKeepsElapsed
    /\ RestartResets

-----------------------------------------------------------------------------
(* Range of elapsed and progress (Spec)                                    *)

\* progress counts in units of 1 / DURATION_MS: DURATION_MS stands for 1
InRange(low, value, high) == low <= value /\ value <= high

\* C13: in every reachable state 0 <= elapsed <= DURATION_MS and progress
\* lies in [0, 1], whatever events and frame timestamps occurred.
C13_ElapsedAndProgressInRange ==
    /\ InRange(0, elapsed, DURATION_MS)
    /\ InRange(0, progress(plan, elapsed), DURATION_MS)

\* the upper bounds alone: Math.min caps both
ElapsedAndProgressCapped ==
    /\ elapsed <= DURATION_MS
    /\ progress(plan, elapsed) <= DURATION_MS

-----------------------------------------------------------------------------
(* Ids of the generated points (Spec)                                      *)

DistinctIds(points) ==
    \A i, j \in 1..Len(points) : points[i].id = points[j].id => i = j

\* C14: the points generated from an accepted input have pairwise distinct
\* ids, also when distinct keys of a count dictionary resolve to one category.
C14_DistinctIds == DistinctIds(trashPoints)

-----------------------------------------------------------------------------
(* SpecGenerate: the three parseCountsDictionary applied to a dictionary   *)
(* and to the same dictionary with its keys inserted in another order      *)

MaxEntries == 2

GeneratorKeys == {"13", "trash_plastic", "trash_metal", "plastic"}

GeneratorEntries == {Entry(key, Count(v)) : key \in GeneratorKeys, v \in 1..2}

\* Object.entries of an object: its keys are distinct, and the keys that are
\* integer indices come first
ObjectEntriesOrder(d) ==
    /\ \A i, j \in 1..Len(d) : d[i].key = d[j].key => i = j
    /\ \A i, j \in 1..Len(d) : (i < j /\ IsNumericKey(d[j].key)) => IsNumericKey(d[i].key)

Dictionaries ==
    {d \in SeqsUpTo(GeneratorEntries, MaxEntries) \ {<<>>} : ObjectEntriesOrder(d)}

InitGenerate ==
    /\ UiIdle
    /\ pc = "call"
    /\ \E impl \in {"visual", "page", "component"}, d \in Dictionaries, e \in Dictionaries :
          /\ Len(d) = Len(e) /\ Range(d) = Range(e)
          /\ args = [impl |-> impl, dictionary |-> d, reordered |-> e]
    /\ result = <<>>

Generated(points) == [ok |-> TRUE, points |-> points]

ParseCountsVisualCall ==
    /\ pc = "call"
    /\ args.impl = "visual"
    /\ pc' = "done"
    /\ result' = <<parseCountsDictionaryVisual(args.dictionary),
                   parseCountsDictionaryVisual(args.reordered)>>
    /\ UNCHANGED <<args, uiVars>>

ParseCountsPageCall ==
    /\ pc = "call"
    /\ args.impl = "page"
    /\ pc' = "done"
    /\ result' = <<Generated(parseCountsDictionaryPage(args.dictionary)),
                   Generated(parseCountsDictionaryPage(args.reordered))>>
    /\ UNCHANGED <<args, uiVars>>

ParseCountsComponentCall ==
    /\ pc = "call"
    /\ args.impl = "component"
    /\ pc' = "done"
    /\ result' = <<Generated(parseCountsDictionaryComponent(args.dictionary)),
                   Generated(parseCountsDictionaryComponent(args.reordered))>>
    /\ UNCHANGED <<args, uiVars>>

NextGenerate == ParseCountsVisualCall \/ ParseCountsPageCall \/ ParseCountsComponentCall

SpecGenerate == InitGenerate /\ [][NextGenerate]_vars

\* both runs accept and give the same list: ids, types, positions and order
SamePointLists ==
    (pc = "done" /\ result[1].ok) => (result[2].ok /\ result[2].points = result[1].points)

\* C15: the point list generated from a count dictionary depends only on its
\* category-to-count entries: the same entries inserted in another key order
\* give the identical list, and so do two runs on the same dictionary.
C15_KeyOrderIndependent == SamePointLists

\* C15 for parseCountsDictionary of the README and of the component alone
SortedKeysGiveSameList ==
    args.impl \in {"visual", "component"} => SamePointLists

-----------------------------------------------------------------------------
(* The space the route is planned in (SpecBuildPlan)                       *)

\* the point with its canvas position in the fields that distance reads
InCanvasSpace(p) == [p EXCEPT !.x = p.normX, !.y = p.normY]

\* the route of the surface's planner over the canvas positions
CanvasRoute(impl, base, targets) ==
    IF impl = "buildPlan"
    THEN orderTargets([k \in 1..Len(targets) |-> InCanvasSpace(targets[k])], InCanvasSpace(base))
    ELSE greedySort(InCanvasSpace(base), [k \in 1..Len(targets) |-> InCanvasSpace(targets[k])])

SameStops(route, other) ==
    /\ Len(route) = Len(other)
    /\ \A k \in 1..Len(route) :
          route[k].id = other[k].id /\ CanvasOf(route[k]) = CanvasOf(other[k])

RouteIsCanvasRoute(impl, p) ==
    SameStops(p.orderedTargets, CanvasRoute(impl, p.base, p.targets))

\* C16: the route of a Plan is the nearest-neighbour / 2-opt route computed
\* with the Euclidean distances between the canvas positions (normX, normY)
\* of the base and the targets.
C16_RoutePlannedInCanvasSpace ==
    (pc = "done" /\ result.present) => RouteIsCanvasRoute(args.impl, result)

\* C16 for buildPlan of the page, the component and the README alone, whose
\* normalizePoints scales both axes by the same factor
UniformScaleKeepsRoute ==
    (pc = "done" /\ args.impl = "buildPlan") => RouteIsCanvasRoute(args.impl, result)

-----------------------------------------------------------------------------
(* The path passes through its waypoints (SpecBuildPlan)                   *)

\* some sample lies on the canvas position of the waypoint, at arc length d
ReachedAt(path, waypoint, d) ==
    \E s \in 1..Len(path.points) :
        path.points[s] = CanvasOf(waypoint) /\ path.cumulative[s] = d

ThroughWaypoints(p) ==
    /\ p.smoothPath.points[1] = CanvasOf(p.base)
    /\ Len(p.smoothPath.segmentDistances) = Len(p.orderedTargets)
    /\ \A k \in 1..Len(p.orderedTargets) :
          ReachedAt(p.smoothPath, p.orderedTargets[k], p.smoothPath.segmentDistances[k])

\* C17: the path of a Plan with at least one target starts at the canvas
\* position of the base; segmentDistances has one entry per route target, and
\* entry k is the cumulative arc length of a sample that lies exactly on the
\* canvas position of route target k.
C17_PathThroughWaypoints ==
    (pc = "done" /\ result.present /\ Len(result.orderedTargets) >= 1)
        => ThroughWaypoints(result)

\* C17 for the spline builder of the page, the component and the README, where
\* the sample of target k is the last one of segment k
SplineThroughWaypoints ==
    (pc = "done" /\ args.impl = "buildPlan")
        => /\ ThroughWaypoints(result)
           /\ \A k \in 1..Len(result.orderedTargets) :
                 /\ result.smoothPath.points[1 + k * samplesPerSegment]
                       = CanvasOf(result.orderedTargets[k])
                 /\ result.smoothPath.cumulative[1 + k * samplesPerSegment]
                       = result.smoothPath.segmentDistances[k]

-----------------------------------------------------------------------------
(* The collected count and the number of targets (Spec)                    *)

TargetCount(p) == IF p.present THEN Len(p.targets) ELSE 0

CollectedWithinTargets(p, e) ==
    /\ InRange(0, collectedCount(p, e), TargetCount(p))
    /\ (p.present /\ p.smoothPath.totalLength > 0 /\ progress(p, e) = DURATION_MS)
          => collectedCount(p, e) = TargetCount(p)

\* C18: in every reachable state of every surface the collected count lies
\* between 0 and the number of targets of the current Plan, and it equals the
\* number of targets when progress is 1 on a path of positive length.
C18_CollectedWithinTargets == CollectedWithinTargets(plan, elapsed)

\* C18 on the surfaces that share buildPlan of page.tsx
SplineCollectedWithinTargets ==
    surface # "swarm" => CollectedWithinTargets(plan, elapsed)

-----------------------------------------------------------------------------
(* The end of the playback (Spec)                                          *)

\* the frame callback that brings elapsed to DURATION_MS stops the playback
\* and schedules no further frame
LastFrameStops ==
    [][(TickForward /\ elapsed' >= DURATION_MS) => (~isPlaying' /\ last' = "none")]_vars

\* once stopped at the end, elapsed changes only by being reset to 0
StoppedAtEndStays ==
    [][(~isPlaying /\ elapsed >= DURATION_MS /\ elapsed' # elapsed) => elapsed' = 0]_vars

\* Play at the end starts again from 0
PlayAtEndRestarts ==
    [][(~isPlaying /\ elapsed >= DURATION_MS /\ HandlePlayPause)
           => (isPlaying' /\ elapsed' = 0)]_vars

\* C19: the frame callback that brings elapsed to DURATION_MS sets isPlaying
\* to false and schedules no further frame, whenever React runs the updater
\* passed to setElapsed; elapsed then stays at DURATION_MS until Play or
\* Restart, and Play at the end resets elapsed to 0 before playing.
C19_PlaybackStopsAtEnd ==
    /\ LastFrameStops
    /\ StoppedAtEndStays
    /\ PlayAtEndRestarts

-----------------------------------------------------------------------------
(* Polls that bring nothing new (Spec)                                     *)

\* a poll response whose filtered counts are the ones on display
PollOfSameCounts ==
    \E dataCounts \in PollCounts :
        FilteredCounts(dataCounts) = counts /\ PollCountsReceived(dataCounts)

\* C20: on the visualization page a poll response that carries the counts
\* already displayed leaves elapsed, isPlaying and the generated points as
\* they are; the animation is reset only when the counts change.
C20_SamePollKeepsPlayback ==
    [][PollOfSameCounts => UNCHANGED <<elapsed, isPlaying, trashPoints>>]_vars

\* the points themselves are regenerated to the same list
SamePollKeepsPoints ==
    [][PollOfSameCounts => UNCHANGED <<trashPoints, plan>>]_vars

-----------------------------------------------------------------------------
(* Nearest-neighbour construction (SpecPlanner)                            *)

\* the index in targets of a point of the route (the ids of targets are distinct)
IndexIn(targets, p) == CHOOSE k \in 1..Len(targets) : targets[k] = p

\* the route of construction as indices into targets: route of the
\* construction loop of orderTargets, result of greedySort
ConstructedRoute ==
    IF args.impl = "orderTargets" THEN result.nn
    ELSE [k \in 1..Len(result.ordered) |-> IndexIn(args.targets, result.ordered[k])]

\* stop k is a nearest unvisited target of the current position, and the
\* first of the array among the nearest ones
NearestFirst(base, targets, route, k) ==
    LET current == IF k = 1 THEN base ELSE targets[route[k - 1]]
        visited == {route[m] : m \in 1..(k - 1)}
    IN  \A m \in (1..Len(targets)) \ visited :
            \/ distance(current, targets[route[k]]) < distance(current, targets[m])
            \/ (distance(current, targets[route[k]]) = distance(current, targets[m])
                   /\ route[k] <= m)

\* C21: every step of construction selects, among the unvisited targets, one
\* at minimum Euclidean distance from the current position (the base, then
\* the target chosen last), and the first of the targets array among several
\* at that minimum distance.
C21_NearestUnvisitedFirstOnTie ==
    (pc \in {"twoOpt", "done"} /\ args.targets # <<>>) =>
        /\ Len(ConstructedRoute) = Len(args.targets)
        /\ \A k \in 1..Len(args.targets) :
              NearestFirst(args.base, args.targets, ConstructedRoute, k)

\* a construction over three or more targets in which a later target of the
\* array was at the same minimum distance from the base as the one selected
C21_Witness ==
    /\ pc = "done"
    /\ Len(args.targets) >= 3
    /\ \E m \in 1..Len(args.targets) :
          /\ m # ConstructedRoute[1]
          /\ distance(args.base, args.targets[m])
                = distance(args.base, args.targets[ConstructedRoute[1]])

-----------------------------------------------------------------------------
(* 2-opt refinement (SpecPlanner)                                          *)

\* orderTargets has returned a route over at least one target
Refined == pc = "done" /\ args.impl = "orderTargets" /\ args.targets # <<>>

\* positions count from 1: the pairs (i, j) of the code with low <= i < j <= high
PairsBetween(low, high) ==
    {<<i + 1, j + 1>> : i \in low..high, j \in low..high} \cap {pair \in Int \X Int : pair[1] < pair[2]}

\* routes of fewer than 4 stops come back in nearest-neighbour order; longer
\* ones have had passes over the pairs, the last of which found none improving
RefinedOver(pairs) ==
    /\ Len(result.route) < 4 => result.route = result.nn
    /\ Len(result.route) >= 4 =>
          /\ TwoOptPairs(Len(result.route), 2, 3) = pairs
          /\ \A pair \in TwoOptPairs(Len(result.route), 2, 3) :
                ~TwoOptGain(args.targets, result.route, pair[1], pair[2])

\* C22 as stated: 2-opt is applied to routes of at least 4 stops only, a pass
\* scans all pairs (i, j) with 1 <= i < j <= n - 1 (n stops, route[0] the
\* first) and reverses route[i..j] on a gain, and on return no scanned pair is
\* improving.
C22_ScansPairsUpToLast ==
    Refined => RefinedOver(PairsBetween(1, Len(result.route) - 1))

\* C22 with the range the loops have: a pass scans all pairs (i, j) with
\* 1 <= i < j <= n - 2, so that d = route[j + 1] exists for every pair, and on
\* return no pair of that range is improving; routes of fewer than 4 stops are
\* returned in nearest-neighbour order.
C22_ScansPairsButLast ==
    Refined => RefinedOver(PairsBetween(1, Len(result.route) - 2))

\* a route of four stops that 2-opt changed
C22_Witness ==
    /\ Refined
    /\ Len(result.route) = 4
    /\ result.route # result.nn

-----------------------------------------------------------------------------
(* SpecTwoOpt: the 2-opt block of orderTargets, one loop iteration a step, *)
(* from the nearest-neighbour route of a base and a list of four or more   *)
(* targets over the sites                                                  *)

\* the caller has a base and is collecting the targets
InitTwoOpt ==
    /\ UiIdle
    /\ pc = "input"
    /\ \E b \in PlannerSites :
          args = [impl |-> "orderTargets", base |-> SitePoint("rov-1", "rov", b),
                  targets |-> <<>>]
    /\ result = [nn |-> <<>>, route |-> <<>>, i |-> 2, j |-> 3, improved |-> FALSE]

\* one more target for the call
TwoOptInput ==
    /\ pc = "input"
    /\ Len(args.targets) < MaxTargets
    /\ \E site \in PlannerSites :
          args' = [args EXCEPT !.targets =
                      Append(args.targets,
                             SitePoint(TargetIds[Len(args.targets) + 1], "trash_plastic", site))]
    /\ UNCHANGED <<pc, result, uiVars>>

\* orderTargets(targets, base) up to "let improved = true" and the first pass
TwoOptEnter ==
    /\ pc = "input"
    /\ Len(args.targets) >= 4
    /\ pc' = "pass"
    /\ \E nn \in {NearestNeighbourRoute(args.targets, args.base)} :
          result' = [nn |-> nn, route |-> nn, i |-> 2, j |-> 3, improved |-> FALSE]
    /\ UNCHANGED <<args, uiVars>>

InsidePass ==
    /\ pc = "pass"
    /\ result.i <= Len(result.route) - 2
    /\ result.j <= Len(result.route) - 1

\* the body of the inner loop when the test succeeds
TwoOptSwap ==
    /\ InsidePass
    /\ TwoOptGain(args.targets, result.route, result.i, result.j)
    /\ result' = [result EXCEPT !.route = reverseRouteSegment(result.route, result.i, result.j),
                                !.improved = TRUE,
                                !.j = result.j + 1]
    /\ UNCHANGED <<pc, args, uiVars>>

\* the body of the inner loop when the test fails
TwoOptKeep ==
    /\ InsidePass
    /\ ~TwoOptGain(args.targets, result.route, result.i, result.j)
    /\ result' = [result EXCEPT !.j = result.j + 1]
    /\ UNCHANGED <<pc, args, uiVars>>

\* the inner loop is over: i++
TwoOptNextI ==
    /\ pc = "pass"
    /\ result.i <= Len(result.route) - 2
    /\ result.j > Len(result.route) - 1
    /\ result' = [result EXCEPT !.i = result.i + 1, !.j = result.i + 2]
    /\ UNCHANGED <<pc, args, uiVars>>

\* the outer loop is over: while (improved) starts another pass
TwoOptNextPass ==
    /\ pc = "pass"
    /\ result.i > Len(result.route) - 2
    /\ result.improved
    /\ result' = [result EXCEPT !.i = 2, !.j = 3, !.improved = FALSE]
    /\ UNCHANGED <<pc, args, uiVars>>

\* the outer loop is over and no swap was made: the while loop ends
TwoOptReturn ==
    /\ pc = "pass"
    /\ result.i > Len(result.route) - 2
    /\ ~result.improved
    /\ pc' = "done"
    /\ UNCHANGED <<result, args, uiVars>>

\* a step of the loop
TwoOptStep == TwoOptSwap \/ TwoOptKeep \/ TwoOptNextI \/ TwoOptNextPass \/ TwoOptReturn

NextTwoOpt == TwoOptInput \/ TwoOptEnter \/ TwoOptStep

\* the loop is sequential code: once entered it takes its next step whenever
\* it has one
SpecTwoOpt == InitTwoOpt /\ [][NextTwoOpt]_vars /\ WF_vars(TwoOptStep)

\* the steps arrive at the route that TwoOptRefine computes
StepsAgreeWithRefine ==
    pc = "done" => result.route = TwoOptRefine(args.targets, result.nn)

\* C23: every accepted reversal makes the route strictly shorter, and the
\* while (improved) loop reaches a pass without a swap and ends.
C23_TwoOptTerminates ==
    /\ [][TwoOptSwap => RouteLength(args.base, args.targets, result.route')
                           < RouteLength(args.base, args.targets, result.route)]_vars
    /\ (pc = "pass") ~> (pc = "done")

\* the loop has ended after at least one reversal
C23_Witness ==
    /\ pc = "done"
    /\ result.improved = FALSE
    /\ result.route # result.nn

-----------------------------------------------------------------------------
(* C24: the first and the last stop under 2-opt (SpecPlanner)              *)

\* the stops strictly between the first and the last
InnerStops(route) == {route[k] : k \in 2..(Len(route) - 1)}

\* C24: 2-opt refinement leaves the first and the last stop of the
\* nearest-neighbour route where they are; only the stops between them are
\* reordered.
C24_RefineKeepsEnds ==
    Refined =>
        /\ Len(result.route) = Len(result.nn)
        /\ result.route[1] = result.nn[1]
        /\ result.route[Len(result.route)] = result.nn[Len(result.nn)]
        /\ InnerStops(result.route) = InnerStops(result.nn)

\* 2-opt has reordered a route
C24_Witness ==
    /\ Refined
    /\ Len(result.route) >= 4
    /\ \E k \in 2..(Len(result.route) - 1) : result.route[k] # result.nn[k]

-----------------------------------------------------------------------------
(* C25: the collected targets along the route (Spec)                       *)

\* the route targets drawn as collected
CollectedTargets(p, e) ==
    IF p.present THEN {k \in 1..Len(p.orderedTargets) : collected(p, e, k)} ELSE {}

CollectedIsPrefix(p, e) ==
    \A k \in CollectedTargets(p, e) : \A m \in 1..k : m \in CollectedTargets(p, e)

\* C25: route target k is collected when the travelled distance has reached
\* segmentDistances[k]; so the collected targets are a prefix of the route
\* order, and while the Plan stays the same the collected count does not
\* decrease as elapsed grows.
C25_CollectedPrefixGrows ==
    /\ [](CollectedIsPrefix(plan, elapsed))
    /\ [][(plan' = plan /\ elapsed' >= elapsed)
             => collectedCount(plan', elapsed') >= collectedCount(plan, elapsed)]_vars

\* playback is under way: some targets are collected, others are still ahead
C25_Witness ==
    /\ plan.present
    /\ elapsed > 0
    /\ CollectedTargets(plan, elapsed) # {}
    /\ CollectedTargets(plan, elapsed) # 1..Len(plan.orderedTargets)

-----------------------------------------------------------------------------
(* C26: nothing is collected before playback advances (SpecBuildPlan)      *)

\* buildPlan has returned a Plan with at least one target
PlanWithTargets == pc = "done" /\ result.present /\ Len(result.targets) >= 1

\* C26: at elapsed = 0 the collected count of every Plan with at least one
\* target is 0, also for a single target without a collector point and for
\* targets at the place of the base.
C26_NothingCollectedAtStart ==
    PlanWithTargets => collectedCount(result, 0) = 0

\* C26 for the plans whose path has a positive length
NothingCollectedOnPositivePath ==
    (PlanWithTargets /\ result.smoothPath.totalLength > 0 /\ args.impl = "buildPlan")
        => collectedCount(result, 0) = 0

-----------------------------------------------------------------------------
(* C27: normalized points and the padded area (SpecBuildPlan)              *)

\* padding = 0.1 * min(width, height) on every side
InPaddedArea(point, size) ==
    LET padding == Min(size.width, size.height) \div 10
    IN  /\ InRange(padding, point.normX, size.width - padding)
        /\ InRange(padding, point.normY, size.height - padding)

AllInPaddedArea(p, size) ==
    \A k \in 1..Len(p.normalizedPoints) : InPaddedArea(p.normalizedPoints[k], size)

\* C27: every normalized point of a non-empty point set lies inside the padded
\* drawable area, also when the x-range or the y-range of the input is zero.
C27_NormalizedInsidePadding ==
    (pc = "done" /\ result.present) => AllInPaddedArea(result, PlanCanvas)

\* C27 for normalizePoints of page.tsx
NormalizePointsInsidePadding ==
    (pc = "done" /\ result.present /\ args.impl = "buildPlan")
        => AllInPaddedArea(result, PlanCanvas)

-----------------------------------------------------------------------------
(* C28: centring and the vertical axis (SpecBuildPlan)                     *)

NormXs(p) == [k \in 1..Len(p.normalizedPoints) |-> p.normalizedPoints[k].normX]
NormYs(p) == [k \in 1..Len(p.normalizedPoints) |-> p.normalizedPoints[k].normY]
SourceXs(p) == [k \in 1..Len(p.normalizedPoints) |-> p.normalizedPoints[k].x]
SourceYs(p) == [k \in 1..Len(p.normalizedPoints) |-> p.normalizedPoints[k].y]

\* twice the midpoint of the bounding box is the canvas extent, up to the
\* rounding of the two coordinates to the unit of length
MidpointAt(values, extent) ==
    InRange(extent - 1, SeqMin(values) + SeqMax(values), extent + 1)

Centred(p, size) ==
    /\ MidpointAt(NormXs(p), size.width)
    /\ MidpointAt(NormYs(p), size.height)

\* a point with a larger source y never gets a larger normY
VerticalAxisInverted(p) ==
    \A j, k \in 1..Len(p.normalizedPoints) :
        p.normalizedPoints[j].y > p.normalizedPoints[k].y
            => p.normalizedPoints[j].normY <= p.normalizedPoints[k].normY

\* C28: the bounding box of the normalized points is centred on the canvas on
\* both axes for every input, also for co-located points and a zero x-range or
\* y-range, and the vertical axis is inverted.
C28_CentredAndInverted ==
    (pc = "done" /\ result.present)
        => (Centred(result, PlanCanvas) /\ VerticalAxisInverted(result))

\* C28 for normalizePoints of page.tsx on inputs that have an extent on both
\* axes; the inversion for every input
CentredOnPositiveRanges ==
    (pc = "done" /\ result.present /\ args.impl = "buildPlan")
        => /\ VerticalAxisInverted(result)
           /\ (/\ SeqMin(SourceXs(result)) < SeqMax(SourceXs(result))
               /\ SeqMin(SourceYs(result)) < SeqMax(SourceYs(result)))
                 => Centred(result, PlanCanvas)

-----------------------------------------------------------------------------
(* SpecInterpolate: interpolateAlongPath applied to polylines over the     *)
(* canvas sites and to distances around their samples                      *)

MaxSamples == 4

\* the while loop with the comparison turned round
RECURSIVE SearchLoopReversed(_, _, _, _)
SearchLoopReversed(cumulative, dist, low, high) ==
    IF low < high
    THEN IF cumulative[((low + high) \div 2) + 1] > dist
         THEN SearchLoopReversed(cumulative, dist, ((low + high) \div 2) + 1, high)
         ELSE SearchLoopReversed(cumulative, dist, low, (low + high) \div 2)
    ELSE low

\* while (low < high): low and high count from 0 as in the code, and
\* cumulative[mid] of the code is cumulative[mid + 1] here
RECURSIVE SearchLoop(_, _, _, _)
SearchLoop(cumulative, dist, low, high) ==
    IF low < high
    THEN IF cumulative[((low + high) \div 2) + 1] < dist
         THEN SearchLoop(cumulative, dist, ((low + high) \div 2) + 1, high)
         ELSE SearchLoop(cumulative, dist, low, (low + high) \div 2)
    ELSE low

\* idx = Math.max(1, low), counted from 0
SegmentIndex(cumulative, dist) ==
    Max(1, SearchLoop(cumulative, dist, 0, Len(cumulative) - 1))

\* segmentLength = nextDistance - prevDistance || 1 (one pixel is 10 units)
SegmentLengthAt(cumulative, idx) ==
    IF cumulative[idx + 1] - cumulative[idx] = 0 THEN 10
    ELSE cumulative[idx + 1] - cumulative[idx]

\* prev + (next - prev) * ratio with ratio = num / den, rounded to the unit
Lerp(prev, next, num, den) == prev + (((2 * (next - prev) * num) + den) \div (2 * den))

\* the position on the segment between samples idx - 1 and idx (from 0)
InterpolateAt(points, cumulative, dist, idx) ==
    [x |-> Lerp(points[idx].x, points[idx + 1].x,
                dist - cumulative[idx], SegmentLengthAt(cumulative, idx)),
     y |-> Lerp(points[idx].y, points[idx + 1].y,
                dist - cumulative[idx], SegmentLengthAt(cumulative, idx))]

interpolateAlongPath(points, cumulative, dist) ==
    IF dist <= 0 THEN points[1]
    ELSE IF dist >= cumulative[Len(cumulative)] THEN points[Len(cumulative)]
    ELSE InterpolateAt(points, cumulative, dist, SegmentIndex(cumulative, dist))

\* the distances asked for: before the start, on every sample, inside the
\* segments and past the end
ProbeDistances(cumulative) ==
    {-10} \cup {c + offset : c \in Range(cumulative), offset \in {0, 50, 150}}

InitInterpolate ==
    /\ UiIdle
    /\ pc = "call"
    /\ \E sites \in SeqsUpTo(SmoothSites, MaxSamples) \ {<<>>} :
       \E points \in {[k \in 1..Len(sites) |-> CanvasVec(sites[k])]} :
       \E dist \in ProbeDistances(PathCumulative(points)) :
          args = [impl |-> "interpolateAlongPath", points |-> points,
                  cumulative |-> PathCumulative(points), distance |-> dist]
    /\ result = [x |-> 0, y |-> 0]

InterpolateCall ==
    /\ pc = "call"
    /\ result' = interpolateAlongPath(args.points, args.cumulative, args.distance)
    /\ pc' = "done"
    /\ UNCHANGED <<args, uiVars>>

NextInterpolate == InterpolateCall

SpecInterpolate == InitInterpolate /\ [][NextInterpolate]_vars

\* a scan over the samples in order: the first sample i >= 1 (from 0) whose
\* cumulative length is at least dist
RECURSIVE ScanFrom(_, _, _)
ScanFrom(cumulative, dist, i) ==
    IF i >= Len(cumulative) - 1 \/ cumulative[i + 1] >= dist THEN i
    ELSE ScanFrom(cumulative, dist, i + 1)

LinearScanPosition(points, cumulative, dist) ==
    IF dist <= 0 THEN points[1]
    ELSE IF dist >= cumulative[Len(cumulative)] THEN points[Len(cumulative)]
    ELSE LET i == ScanFrom(cumulative, dist, 1)
             span == cumulative[i + 1] - cumulative[i]
         IN  [x |-> Lerp(points[i].x, points[i + 1].x, dist - cumulative[i], span),
              y |-> Lerp(points[i].y, points[i + 1].y, dist - cumulative[i], span)]

\* dist lies strictly inside the path
InsidePath == 0 < args.distance /\ args.distance < LastOf(args.cumulative)

\* the segment used brackets dist, and the ratio lies in [0, 1]
BracketedAt(cumulative, dist, idx) ==
    /\ InRange(1, idx, Len(cumulative) - 1)
    /\ InRange(cumulative[idx], dist, cumulative[idx + 1])
    /\ InRange(0, dist - cumulative[idx], SegmentLengthAt(cumulative, idx))

\* C29: on a well-formed path the position query returns the first sample for
\* d <= 0, the last sample for d >= totalLength, and otherwise the linear
\* interpolation between the two consecutive samples that bracket d, with a
\* ratio in [0, 1]; the result is that of a linear scan over the samples.
C29_PositionQuery ==
    pc = "done" =>
        /\ args.distance <= 0 => result = args.points[1]
        /\ args.distance >= LastOf(args.cumulative) => result = LastOf(args.points)
        /\ InsidePath =>
              /\ BracketedAt(args.cumulative, args.distance,
                             SegmentIndex(args.cumulative, args.distance))
              /\ result = InterpolateAt(args.points, args.cumulative, args.distance,
                                        SegmentIndex(args.cumulative, args.distance))
        /\ result = LinearScanPosition(args.points, args.cumulative, args.distance)

\* a query strictly inside a segment of a path that also has a segment of
\* length zero
C29_Witness ==
    /\ pc = "done"
    /\ InsidePath
    /\ args.distance \notin Range(args.cumulative)
    /\ \E k \in 1..(Len(args.cumulative) - 1) : args.cumulative[k] = args.cumulative[k + 1]
    /\ result \notin Range(args.points)

-----------------------------------------------------------------------------
(* C30: a canvas resize (Spec)                                             *)

\* a point without its canvas position
SourceOf(point) == [id |-> point.id, type |-> point.type, x |-> point.x, y |-> point.y]

SourcesOf(points) == [k \in 1..Len(points) |-> SourceOf(points[k])]

\* q has the base, the targets and the visiting order of p, when p is a Plan
SameVisits(p, q) ==
    p.present =>
          /\ q.present
          /\ SourceOf(p.base) = SourceOf(q.base)
          /\ SourcesOf(p.targets) = SourcesOf(q.targets)
          /\ SourcesOf(p.orderedTargets) = SourcesOf(q.orderedTargets)

\* C30: a canvas resize changes neither elapsed nor isPlaying, and the Plan
\* for the new size has the base, the targets and the visiting order of the
\* Plan before the resize.
C30_ResizeKeepsPlaybackAndRoute ==
    [][(\E size \in Sizes : Resize(size))
          => /\ elapsed' = elapsed
             /\ isPlaying' = isPlaying
             /\ SameVisits(plan, plan')]_vars

\* the container has been resized while a plan of several targets plays
C30_Witness ==
    /\ pc = "ui"
    /\ containerSize # InitialSize(surface)
    /\ isPlaying
    /\ elapsed > 0
    /\ plan.present
    /\ Len(plan.orderedTargets) >= 2
    /\ plan.smoothPath.totalLength > 0

====
